---- MODULE Spec2Model ----
(***************************************************************************)
(* ESP32Dashboard: the widget registry (cards, controls), the control      *)
(* dispatch of the two inbound channels (POST /api/control and WebSocket   *)
(* text messages), the chart store and the periodic update of loop().      *)
(***************************************************************************)
EXTENDS Integers, Sequences, FiniteSets, TLC

VARIABLES
    script,          \* the add*/set* calls of the sketch's setup() still to run
    phase,           \* "setup", inside begin() "connecting" then "checking", after it
                     \* "run" (begin() returned true) or "failed" (false)
    boot,            \* begin(): its counter, its reads of WiFi.status(), what it created
    cards,           \* std::vector<DashboardCard>
    controls,        \* std::vector<DashboardControl>
    lastUpdate,      \* unsigned long
    updateInterval,  \* unsigned long
    now,             \* millis(), an unsigned 32-bit counter
    since,           \* milliseconds that really passed since lastUpdate was assigned
    elapsed,         \* number of clock advances so far
    horizon,         \* number of clock advances the run explores
    sensor,          \* what the sketch's producers currently read (thousandths)
    clients,         \* webSocket->connectedClients()
    eventCbs,        \* which of onClientConnect/onClientDisconnect/onCustomMessage are set
    pc,              \* position inside loop(): "http", "ws" or "tick"
    ev,              \* the item the last handler serviced
    pre,             \* controls as they were when that handler started
    calls,           \* callbacks that handler invoked, in order
    sent,            \* snapshots that handler passed to broadcastTXT, in order
    resp,            \* HTTP status that handler sent (0: none)
    prev,            \* summary of the item serviced before the last one
    ret,             \* what that handler or accessor handed back to its caller
    appended         \* per card, every sample addChartDataPoint ever stored, in order

vars == <<script, phase, boot, cards, controls, lastUpdate, updateInterval, now, since, elapsed,
          horizon,
          sensor, clients, eventCbs, pc, ev, pre, calls, sent, resp, prev, ret, appended>>

(***************************************************************************)
(* Enumerations of ESP32Dashboard.h                                        *)
(***************************************************************************)
CARD_TEMPERATURE == 0
CARD_HUMIDITY == 1
CARD_MOTOR_RPM == 2
CARD_CUSTOM == 3
CARD_STATUS == 4
CARD_PERCENTAGE == 5
CARD_CHART == 6

CONTROL_SWITCH == 0
CONTROL_BUTTON == 1
CONTROL_POWER_BUTTON == 2
CONTROL_SLIDER == 3

\* unsigned long and size_t are 32 bits wide on the target; a value is kept as
\* its two 16-bit halves <<high, low>>
Half == 2 ^ 16

\* default update interval set by the constructor
DefaultInterval == 1000

(***************************************************************************)
(* Bounds of the model                                                     *)
(***************************************************************************)
\* largest chart capacity a sketch of the model passes to addChartCard
MaxPoints == 2
\* number of clock advances explored when cards and controls are both present
MaxElapsed == 1
\* number of viewers that may be connected at once
MaxClients == 1

(***************************************************************************)
(* Integer conversions                                                     *)
(***************************************************************************)
\* conversion of an int to size_t / unsigned long (two's complement)
ToUnsigned(n) == <<(n \div Half) % Half, n % Half>>

\* unsigned addition a + d of a small non-negative int d, modulo 2^32
UAdd(a, d) == <<(a[1] + (a[2] + d) \div Half) % Half, (a[2] + d) % Half>>

\* unsigned subtraction a - b, modulo 2^32
USub(a, b) == <<(a[1] - b[1] - (IF a[2] < b[2] THEN 1 ELSE 0)) % Half, (a[2] - b[2]) % Half>>

\* a >= b and a > b on unsigned values
UGe(a, b) == a[1] > b[1] \/ (a[1] = b[1] /\ a[2] >= b[2])
UGt(a, b) == a[1] > b[1] \/ (a[1] = b[1] /\ a[2] > b[2])

Abs(x) == IF x < 0 THEN -x ELSE x

\* an unsigned value below 2^31 as a number
Millis(u) == u[1] * Half + u[2]

\* x is in thousandths; the result is x rounded to `dec` decimals (dec <= 3), in
\* units of 10^-dec, rounding half away from zero as dtostrf does
RoundTo(x, dec) ==
    LET scale == 10 ^ (3 - dec)
        q == (Abs(x) + scale \div 2) \div scale
    IN  IF x < 0 THEN -q ELSE q

\* String(int)
IntToString(n) == IF n < 0 THEN "-" \o ToString(-n) ELSE ToString(n)

\* String(float x, dec): x in thousandths, printed with `dec` decimals
FloatToString(x, dec) ==
    LET r == RoundTo(x, dec)
        p == 10 ^ dec
        frac == Abs(r) % p
        pad == IF dec = 2 /\ frac < 10 THEN "0" ELSE ""
    IN  (IF r < 0 THEN "-" ELSE "") \o ToString(Abs(r) \div p)
        \o (IF dec = 0 THEN "" ELSE "." \o pad \o ToString(frac))

(***************************************************************************)
(* Producers.  A std::function is modelled by a tag naming the lambda it   *)
(* holds ("none": empty).  Every producer of the sketch reads `sensor`.    *)
(***************************************************************************)
ValueProducer(tag, x) ==
    CASE tag = "temp"  -> FloatToString(x, 1) \o "*C"
      [] tag = "hum"   -> FloatToString(x, 1) \o "%"
      [] tag = "rpm"   -> IntToString(x \div 1000)
      [] tag = "pct"   -> IntToString(x \div 1000) \o "%"
      [] tag = "chart" -> FloatToString(x, 2)
      [] tag = "user"  -> "v" \o IntToString(x)

StatusProducer(tag, x) ==
    CASE tag = "temp"  -> IF x > 30000 THEN "High temperature"
                          ELSE IF x < 15000 THEN "Low temperature" ELSE "Normal range"
      [] tag = "hum"   -> IF x > 70000 THEN "High humidity"
                          ELSE IF x < 30000 THEN "Low humidity" ELSE "Optimal"
      [] tag = "rpm"   -> IF x \div 1000 > 1400 THEN "High speed"
                          ELSE IF x \div 1000 < 800 THEN "Low speed" ELSE "Normal speed"
      [] tag = "pct"   -> IF x \div 1000 > 80 THEN "Excellent"
                          ELSE IF x \div 1000 > 50 THEN "Good"
                          ELSE IF x \div 1000 > 20 THEN "Low" ELSE "Critical"
      [] tag = "chart" -> "Real-time data"
      [] tag = "user"  -> "s" \o IntToString(x)

\* String::toFloat() of the chart producer's text: the reading rounded to two
\* decimals, kept in hundredths
ChartValue(x) == RoundTo(x, 2)

(***************************************************************************)
(* Registration.  `junk` is what the uninitialised members of the local    *)
(* DashboardCard / DashboardControl happen to hold ([b |-> bool, i |-> int]).*)
(***************************************************************************)
NewCard(id, title, description, color, icon, type, vcb, scb, maxPoints) ==
    [id |-> id, title |-> title, description |-> description, value |-> "",
     status |-> "", color |-> color, icon |-> icon, type |-> type,
     valueCallback |-> vcb, statusCallback |-> scb, chartData |-> <<>>,
     maxDataPoints |-> maxPoints]

addTemperatureCard(cs, title, junk) ==
    Append(cs, NewCard("temp_" \o ToString(Len(cs)), title, "Temperature", "orange",
                       "thermometer", CARD_TEMPERATURE, "temp", "temp", junk.i))

addHumidityCard(cs, title, junk) ==
    Append(cs, NewCard("hum_" \o ToString(Len(cs)), title, "Humidity", "blue",
                       "droplet", CARD_HUMIDITY, "hum", "hum", junk.i))

\* addMotorRPMCard that numbers its cards on their own, from 0
addMotorRPMCardOwnCounter(cs, title, junk) ==
    Append(cs, NewCard("rpm_" \o ToString(Cardinality({i \in 1..Len(cs) :
                                                          cs[i].type = CARD_MOTOR_RPM})),
                       title, "Motor RPM", "green", "gear", CARD_MOTOR_RPM, "rpm", "rpm",
                       junk.i))

addMotorRPMCard(cs, title, junk) ==
    Append(cs, NewCard("rpm_" \o ToString(Len(cs)), title, "Motor RPM", "green",
                       "gear", CARD_MOTOR_RPM, "rpm", "rpm", junk.i))

\* addStatusCard that registers its card with the type of a custom card
addStatusCardAsCustom(cs, title, description, vcb, scb, color, junk) ==
    Append(cs, NewCard("status_" \o ToString(Len(cs)), title, description, color,
                       "info", CARD_CUSTOM, vcb, scb, junk.i))

addStatusCard(cs, title, description, vcb, scb, color, junk) ==
    Append(cs, NewCard("status_" \o ToString(Len(cs)), title, description, color,
                       "info", CARD_STATUS, vcb, scb, junk.i))

addPercentageCard(cs, title, description, color, junk) ==
    Append(cs, NewCard("pct_" \o ToString(Len(cs)), title, description, color,
                       "bars", CARD_PERCENTAGE, "pct", "pct", junk.i))

addCustomCard(cs, title, description, vcb, scb, color, icon, junk) ==
    Append(cs, NewCard("custom_" \o ToString(Len(cs)), title, description, color,
                       IF icon # "" THEN icon ELSE "star", CARD_CUSTOM, vcb, scb, junk.i))

addChartCard(cs, title, description, color, maxPoints) ==
    Append(cs, NewCard("chart_" \o ToString(Len(cs)), title, description, color,
                       "chart", CARD_CHART, "chart", "chart", maxPoints))

NewControl(id, title, description, type, state, value, min, max, color, swcb, slcb, bcb) ==
    [id |-> id, title |-> title, description |-> description, type |-> type,
     state |-> state, value |-> value, minValue |-> min, maxValue |-> max,
     color |-> color, switchCallback |-> swcb, sliderCallback |-> slcb,
     buttonCallback |-> bcb]

addSwitch(ct, title, description, callback, color, junk) ==
    Append(ct, NewControl("switch_" \o ToString(Len(ct)), title, description,
                          CONTROL_SWITCH, FALSE, junk.i, junk.i, junk.i, color,
                          callback, FALSE, FALSE))

addButton(ct, title, description, callback, color, junk) ==
    Append(ct, NewControl("btn_" \o ToString(Len(ct)), title, description,
                          CONTROL_BUTTON, FALSE, junk.i, junk.i, junk.i, color,
                          FALSE, FALSE, callback))

addPowerButton(ct, title, description, callback, junk) ==
    Append(ct, NewControl("power_" \o ToString(Len(ct)), title, description,
                          CONTROL_POWER_BUTTON, FALSE, junk.i, junk.i, junk.i, "green",
                          callback, FALSE, FALSE))

\* addSlider that starts the slider at 0 instead of at min
addSliderStartsAtZero(ct, title, description, callback, min, max, color, junk) ==
    Append(ct, NewControl("slider_" \o ToString(Len(ct)), title, description,
                          CONTROL_SLIDER, junk.b, 0, min, max, color,
                          FALSE, callback, FALSE))

addSlider(ct, title, description, callback, min, max, color, junk) ==
    Append(ct, NewControl("slider_" \o ToString(Len(ct)), title, description,
                          CONTROL_SLIDER, junk.b, min, min, max, color,
                          FALSE, callback, FALSE))

(***************************************************************************)
(* Inbound JSON.  A text is the members it spells, in order, and the place *)
(* of its first syntax error: bad = 0 for a well-formed object, bad = k    *)
(* when the error comes after k-1 complete members (k = Len + 1: the       *)
(* closing brace is missing).  deserializeJson stores each member as it is *)
(* read and stops at the error; the handlers discard its return value and  *)
(* use the document as it then is.                                         *)
(***************************************************************************)
deserializeJson(text) ==
    [err |-> text.bad # 0,
     doc |-> IF text.bad = 0 THEN text.members
             ELSE SubSeq(text.members, 1, text.bad - 1)]

containsKey(doc, k) == \E i \in 1..Len(doc) : doc[i].k = k

Member(doc, k) == doc[CHOOSE i \in 1..Len(doc) : doc[i].k = k]

\* String s = doc[k]: a missing member converts to the text "null"
AsString(doc, k) == IF containsKey(doc, k) THEN Member(doc, k).s ELSE "null"

\* int n = doc[k]: a missing member converts to 0
AsInt(doc, k) == IF containsKey(doc, k) THEN Member(doc, k).n ELSE 0

(***************************************************************************)
(* Callback invocations, as the handlers record them in `calls`.           *)
(***************************************************************************)
SwitchCall(id, b) == [cb |-> "switch", id |-> id, b |-> b, n |-> 0]
ButtonCall(id) == [cb |-> "button", id |-> id, b |-> FALSE, n |-> 0]
SliderCall(id, n) == [cb |-> "slider", id |-> id, b |-> FALSE, n |-> n]
EventCall(name) == [cb |-> name, id |-> "", b |-> FALSE, n |-> 0]

\* for (auto& control : controls) if (control.id == id) ...: the first match, 0 if none
FindControl(ct, id) ==
    LET S == {i \in 1..Len(ct) : ct[i].id = id}
    IN  IF S = {} THEN 0 ELSE CHOOSE i \in S : \A j \in S : i <= j

IsToggleKind(c) == c.type = CONTROL_SWITCH \/ c.type = CONTROL_POWER_BUTTON

\* ApiDispatch without the kind test of its toggle branch
ApiDispatchAnyKind(ct, doc) ==
    LET i == FindControl(ct, AsString(doc, "id"))
    IN  IF i # 0 /\ AsString(doc, "action") = "toggle"
        THEN [controls |-> [ct EXCEPT ![i].state = ~ct[i].state],
              calls |-> IF ct[i].switchCallback
                        THEN <<SwitchCall(ct[i].id, ~ct[i].state)>> ELSE <<>>]
        ELSE [controls |-> ct, calls |-> <<>>]

\* ApiDispatch whose toggle switches the control on instead of flipping it
ApiDispatchSwitchOn(ct, doc) ==
    LET i == FindControl(ct, AsString(doc, "id"))
    IN  IF i # 0 /\ AsString(doc, "action") = "toggle" /\ IsToggleKind(ct[i])
        THEN [controls |-> [ct EXCEPT ![i].state = TRUE],
              calls |-> IF ct[i].switchCallback
                        THEN <<SwitchCall(ct[i].id, TRUE)>> ELSE <<>>]
        ELSE [controls |-> ct, calls |-> <<>>]

\* ApiDispatch whose click leaves the Button marked as pressed
ApiDispatchClickPresses(ct, doc) ==
    LET i == FindControl(ct, AsString(doc, "id"))
        a == AsString(doc, "action")
    IN  IF i = 0 THEN [controls |-> ct, calls |-> <<>>]
        ELSE IF a = "toggle" /\ IsToggleKind(ct[i])
        THEN [controls |-> [ct EXCEPT ![i].state = ~ct[i].state],
              calls |-> IF ct[i].switchCallback
                        THEN <<SwitchCall(ct[i].id, ~ct[i].state)>> ELSE <<>>]
        ELSE IF a = "click" /\ ct[i].type = CONTROL_BUTTON
        THEN [controls |-> [ct EXCEPT ![i].state = TRUE],
              calls |-> IF ct[i].buttonCallback THEN <<ButtonCall(ct[i].id)>> ELSE <<>>]
        ELSE IF a = "slide" /\ ct[i].type = CONTROL_SLIDER
        THEN [controls |-> [ct EXCEPT ![i].value = AsInt(doc, "value")],
              calls |-> IF ct[i].sliderCallback
                        THEN <<SliderCall(ct[i].id, AsInt(doc, "value"))>> ELSE <<>>]
        ELSE [controls |-> ct, calls |-> <<>>]

(***************************************************************************)
(* The dispatch loop of handleApiControl: the controls and the callbacks   *)
(* invoked.                                                                *)
(***************************************************************************)
ApiDispatch(ct, doc) ==
    LET controlId == AsString(doc, "id")
        action == AsString(doc, "action")
        i == FindControl(ct, controlId)
    IN  IF i = 0 THEN [controls |-> ct, calls |-> <<>>]
        ELSE IF action = "toggle" /\ IsToggleKind(ct[i])
        THEN [controls |-> [ct EXCEPT ![i].state = ~ct[i].state],
              calls |-> IF ct[i].switchCallback
                        THEN <<SwitchCall(ct[i].id, ~ct[i].state)>> ELSE <<>>]
        ELSE IF action = "click" /\ ct[i].type = CONTROL_BUTTON
        THEN [controls |-> ct,
              calls |-> IF ct[i].buttonCallback THEN <<ButtonCall(ct[i].id)>> ELSE <<>>]
        ELSE IF action = "slide" /\ ct[i].type = CONTROL_SLIDER
        THEN [controls |-> [ct EXCEPT ![i].value = AsInt(doc, "value")],
              calls |-> IF ct[i].sliderCallback
                        THEN <<SliderCall(ct[i].id, AsInt(doc, "value"))>> ELSE <<>>]
        ELSE [controls |-> ct, calls |-> <<>>]

\* WsDispatch whose toggle serves the Switch but not the PowerButton
WsDispatchSwitchOnly(ct, doc) ==
    LET i == FindControl(ct, AsString(doc, "id"))
        r == ApiDispatch(ct, doc)
    IN  IF i # 0 /\ AsString(doc, "action") = "toggle" /\ ct[i].type = CONTROL_POWER_BUTTON
        THEN [controls |-> ct, calls |-> <<>>]
        ELSE r

Clamp(v, lo, hi) == IF v < lo THEN lo ELSE IF v > hi THEN hi ELSE v

\* WsDispatch whose slide clamps the value to [minValue, maxValue]
WsDispatchClamped(ct, doc) ==
    LET i == FindControl(ct, AsString(doc, "id"))
        v == IF i = 0 THEN 0 ELSE Clamp(AsInt(doc, "value"), ct[i].minValue, ct[i].maxValue)
    IN  IF i # 0 /\ AsString(doc, "action") = "slide" /\ ct[i].type = CONTROL_SLIDER
        THEN [controls |-> [ct EXCEPT ![i].value = v],
              calls |-> IF ct[i].sliderCallback THEN <<SliderCall(ct[i].id, v)>> ELSE <<>>]
        ELSE [controls |-> ct, calls |-> <<>>]

\* WsDispatch whose toggle flips every Switch and PowerButton of the dashboard
WsDispatchToggleAll(ct, doc) ==
    LET i == FindControl(ct, AsString(doc, "id"))
        a == AsString(doc, "action")
    IN  IF i = 0 THEN [controls |-> ct, calls |-> <<>>]
        ELSE IF a = "toggle" /\ IsToggleKind(ct[i])
        THEN [controls |-> [j \in 1..Len(ct) |->
                              IF IsToggleKind(ct[j]) THEN [ct[j] EXCEPT !.state = ~ct[j].state]
                              ELSE ct[j]],
              calls |-> IF ct[i].switchCallback
                        THEN <<SwitchCall(ct[i].id, ~ct[i].state)>> ELSE <<>>]
        ELSE IF a = "click" /\ ct[i].type = CONTROL_BUTTON
        THEN [controls |-> ct,
              calls |-> IF ct[i].buttonCallback THEN <<ButtonCall(ct[i].id)>> ELSE <<>>]
        ELSE IF a = "slide" /\ ct[i].type = CONTROL_SLIDER
        THEN [controls |-> [ct EXCEPT ![i].value = AsInt(doc, "value")],
              calls |-> IF ct[i].sliderCallback
                        THEN <<SliderCall(ct[i].id, AsInt(doc, "value"))>> ELSE <<>>]
        ELSE [controls |-> ct, calls |-> <<>>]

(***************************************************************************)
(* The dispatch loop of webSocketEvent's WStype_TEXT case.                 *)
(***************************************************************************)
WsDispatch(ct, doc) ==
    LET controlId == AsString(doc, "id")
        action == AsString(doc, "action")
        i == FindControl(ct, controlId)
    IN  IF i = 0 THEN [controls |-> ct, calls |-> <<>>]
        ELSE IF action = "toggle" /\ IsToggleKind(ct[i])
        THEN [controls |-> [ct EXCEPT ![i].state = ~ct[i].state],
              calls |-> IF ct[i].switchCallback
                        THEN <<SwitchCall(ct[i].id, ~ct[i].state)>> ELSE <<>>]
        ELSE IF action = "click" /\ ct[i].type = CONTROL_BUTTON
        THEN [controls |-> ct,
              calls |-> IF ct[i].buttonCallback THEN <<ButtonCall(ct[i].id)>> ELSE <<>>]
        ELSE IF action = "slide" /\ ct[i].type = CONTROL_SLIDER
        THEN [controls |-> [ct EXCEPT ![i].value = AsInt(doc, "value")],
              calls |-> IF ct[i].sliderCallback
                        THEN <<SliderCall(ct[i].id, AsInt(doc, "value"))>> ELSE <<>>]
        ELSE [controls |-> ct, calls |-> <<>>]

(***************************************************************************)
(* The accessors the sketch calls                                          *)
(***************************************************************************)
\* first control with this id that is a Switch or PowerButton, 0 if none
FindSwitch(ct, id) ==
    LET S == {i \in 1..Len(ct) : ct[i].id = id /\ IsToggleKind(ct[i])}
    IN  IF S = {} THEN 0 ELSE CHOOSE i \in S : \A j \in S : i <= j

\* first control with this id that is a Slider, 0 if none
FindSlider(ct, id) ==
    LET S == {i \in 1..Len(ct) : ct[i].id = id /\ ct[i].type = CONTROL_SLIDER}
    IN  IF S = {} THEN 0 ELSE CHOOSE i \in S : \A j \in S : i <= j

FindCard(cs, id) ==
    LET S == {i \in 1..Len(cs) : cs[i].id = id}
    IN  IF S = {} THEN 0 ELSE CHOOSE i \in S : \A j \in S : i <= j

getSwitchState(ct, id) ==
    IF FindSwitch(ct, id) = 0 THEN FALSE ELSE ct[FindSwitch(ct, id)].state

\* setSwitchState that leaves the callback out when the state does not change
setSwitchStateOnChange(ct, id, state) ==
    LET i == FindSwitch(ct, id)
    IN  IF i = 0 THEN [controls |-> ct, calls |-> <<>>]
        ELSE [controls |-> [ct EXCEPT ![i].state = state],
              calls |-> IF ct[i].switchCallback /\ ct[i].state # state
                        THEN <<SwitchCall(ct[i].id, state)>> ELSE <<>>]

setSwitchState(ct, id, state) ==
    LET i == FindSwitch(ct, id)
    IN  IF i = 0 THEN [controls |-> ct, calls |-> <<>>]
        ELSE [controls |-> [ct EXCEPT ![i].state = state],
              calls |-> IF ct[i].switchCallback
                        THEN <<SwitchCall(ct[i].id, state)>> ELSE <<>>]

getSliderValue(ct, id) ==
    IF FindSlider(ct, id) = 0 THEN 0 ELSE ct[FindSlider(ct, id)].value

\* setSliderValue that looks the control up by id alone
setSliderValueAnyKind(ct, id, value) ==
    LET i == FindControl(ct, id)
    IN  IF i = 0 THEN [controls |-> ct, calls |-> <<>>]
        ELSE [controls |-> [ct EXCEPT ![i].value = value],
              calls |-> IF ct[i].sliderCallback
                        THEN <<SliderCall(ct[i].id, value)>> ELSE <<>>]

setSliderValue(ct, id, value) ==
    LET i == FindSlider(ct, id)
    IN  IF i = 0 THEN [controls |-> ct, calls |-> <<>>]
        ELSE [controls |-> [ct EXCEPT ![i].value = value],
              calls |-> IF ct[i].sliderCallback
                        THEN <<SliderCall(ct[i].id, value)>> ELSE <<>>]

\* updateCard that stores the status it is given even when that is the empty string
updateCardOverwritesStatus(cs, id, value, status) ==
    LET i == FindCard(cs, id)
    IN  IF i = 0 THEN cs
        ELSE [cs EXCEPT ![i].value = value, ![i].status = status]

\* status is kept when the sketch passes the empty string
updateCard(cs, id, value, status) ==
    LET i == FindCard(cs, id)
    IN  IF i = 0 THEN cs
        ELSE [cs EXCEPT ![i].value = value,
                        ![i].status = IF status # "" THEN status ELSE cs[i].status]

(***************************************************************************)
(* Snapshots                                                               *)
(***************************************************************************)
CardValue(card, x) ==
    IF card.valueCallback # "none" THEN ValueProducer(card.valueCallback, x) ELSE card.value

CardStatus(card, x) ==
    IF card.statusCallback # "none" THEN StatusProducer(card.statusCallback, x)
    ELSE card.status

\* the JSON document sendDataToClients builds and broadcasts
CompactSnapshot(cs, ct, x, t, n) ==
    [cards |-> [i \in 1..Len(cs) |->
                  IF cs[i].type = CARD_CHART
                  THEN [id |-> cs[i].id, value |-> CardValue(cs[i], x),
                        status |-> CardStatus(cs[i], x), type |-> cs[i].type,
                        chartData |-> cs[i].chartData]
                  ELSE [id |-> cs[i].id, value |-> CardValue(cs[i], x),
                        status |-> CardStatus(cs[i], x), type |-> cs[i].type]],
     controls |-> [i \in 1..Len(ct) |->
                     [id |-> ct[i].id, state |-> ct[i].state, value |-> ct[i].value]],
     timestamp |-> t,
     connectedClients |-> n]

\* FullSnapshot that reports the stored value and status instead of asking the producers
FullSnapshotStored(cs, ct, x, t, n) ==
    [cards |-> [i \in 1..Len(cs) |->
                  [id |-> cs[i].id, title |-> cs[i].title, description |-> cs[i].description,
                   value |-> cs[i].value, status |-> cs[i].status,
                   color |-> cs[i].color, icon |-> cs[i].icon, type |-> cs[i].type,
                   chartData |-> cs[i].chartData]],
     controls |-> [i \in 1..Len(ct) |->
                     [id |-> ct[i].id, title |-> ct[i].title,
                      description |-> ct[i].description, type |-> ct[i].type,
                      state |-> ct[i].state, value |-> ct[i].value, color |-> ct[i].color]],
     timestamp |-> t,
     connectedClients |-> n]

\* the JSON document handleApiData builds and sends as the response body
FullSnapshot(cs, ct, x, t, n) ==
    [cards |-> [i \in 1..Len(cs) |->
                  IF cs[i].type = CARD_CHART
                  THEN [id |-> cs[i].id, title |-> cs[i].title,
                        description |-> cs[i].description,
                        value |-> CardValue(cs[i], x), status |-> CardStatus(cs[i], x),
                        color |-> cs[i].color, icon |-> cs[i].icon, type |-> cs[i].type,
                        chartData |-> cs[i].chartData]
                  ELSE [id |-> cs[i].id, title |-> cs[i].title,
                        description |-> cs[i].description,
                        value |-> CardValue(cs[i], x), status |-> CardStatus(cs[i], x),
                        color |-> cs[i].color, icon |-> cs[i].icon, type |-> cs[i].type]],
     controls |-> [i \in 1..Len(ct) |->
                     [id |-> ct[i].id, title |-> ct[i].title,
                      description |-> ct[i].description, type |-> ct[i].type,
                      state |-> ct[i].state, value |-> ct[i].value, color |-> ct[i].color]],
     timestamp |-> t,
     connectedClients |-> n]

(***************************************************************************)
(* The chart store                                                         *)
(***************************************************************************)
\* PushPoint that, when over capacity, erases the newest sample
PushPointKeepOldest(data, point, maxDataPoints) ==
    LET pushed == Append(data, point)
    IN  IF UGt(ToUnsigned(Len(pushed)), ToUnsigned(maxDataPoints)) THEN data ELSE pushed

\* push_back, then erase(begin()) when size() > maxDataPoints; the comparison
\* converts the int maxDataPoints to size_t
PushPoint(data, point, maxDataPoints) ==
    LET pushed == Append(data, point)
    IN  IF UGt(ToUnsigned(Len(pushed)), ToUnsigned(maxDataPoints)) THEN Tail(pushed) ELSE pushed

FindChart(cs, id) ==
    LET S == {i \in 1..Len(cs) : cs[i].id = id /\ cs[i].type = CARD_CHART}
    IN  IF S = {} THEN 0 ELSE CHOOSE i \in S : \A j \in S : i <= j

addChartDataPoint(cs, cardId, value, t) ==
    LET i == FindChart(cs, cardId)
    IN  IF i = 0 THEN cs
        ELSE [cs EXCEPT ![i].chartData =
                 PushPoint(cs[i].chartData, [timestamp |-> t, value |-> value],
                           cs[i].maxDataPoints)]

\* the for loop of loop(): every chart card with a producer gets one sample
RECURSIVE UpdateCharts(_, _, _, _)
UpdateCharts(cs, k, x, t) ==
    IF k > Len(cs) THEN cs
    ELSE UpdateCharts(
             IF cs[k].type = CARD_CHART /\ cs[k].valueCallback # "none"
             THEN addChartDataPoint(cs, cs[k].id, ChartValue(x), t)
             ELSE cs,
             k + 1, x, t)

(***************************************************************************)
(* The sketches of the model: the calls setup() makes before begin().      *)
(***************************************************************************)
Junk0 == [b |-> FALSE, i |-> 0]
Junk1 == [b |-> TRUE, i |-> 7]

CallSwitch(cb, junk) == [op |-> "addSwitch", cb |-> cb, junk |-> junk]
CallButton(cb, junk) == [op |-> "addButton", cb |-> cb, junk |-> junk]
CallPower(cb, junk) == [op |-> "addPowerButton", cb |-> cb, junk |-> junk]
CallSlider(cb, min, max, junk) ==
    [op |-> "addSlider", cb |-> cb, min |-> min, max |-> max, junk |-> junk]
CallChart(maxPoints) == [op |-> "addChartCard", maxPoints |-> maxPoints]
CallCard(op, vcb, scb, junk) == [op |-> op, vcb |-> vcb, scb |-> scb, junk |-> junk]
CallInterval(ms) == [op |-> "setUpdateInterval", interval |-> ms]
CallEvents(set) == [op |-> "setEvents", set |-> set]

AllEvents == {"onClientConnect", "onClientDisconnect", "onCustomMessage"}

\* sketches that register controls only
ControlSetups ==
    { <<CallEvents(AllEvents), CallSwitch(TRUE, Junk1), CallSlider(TRUE, 0, 100, Junk0)>>,
      <<CallButton(TRUE, Junk0), CallPower(FALSE, Junk0)>>,
      <<CallSlider(FALSE, 0, 100, Junk1), CallButton(FALSE, Junk1)>>,
      <<CallSwitch(FALSE, Junk0), CallPower(TRUE, Junk1)>> }

\* sketches that register cards only, one per chart capacity
ChartSetups ==
    { <<CallInterval(1), CallChart(c)>> : c \in -1..MaxPoints }
    \cup { <<CallCard("addTemperatureCard", "temp", "temp", Junk1), CallChart(1)>> }

\* a small sketch with a chart, run while time passes
MixedSetups ==
    { <<CallInterval(1), CallChart(1)>> }

\* small sketches with the other cards and controls, run while no update falls due
StillSetups ==
    { <<CallCard("addStatusCard", "none", "none", Junk0), CallSlider(TRUE, 50, 100, Junk1),
        CallEvents(AllEvents)>>,
      <<CallCard("addHumidityCard", "hum", "hum", Junk0),
        CallCard("addMotorRPMCard", "rpm", "rpm", Junk0)>>,
      <<CallCard("addPercentageCard", "pct", "pct", Junk0),
        CallCard("addCustomCard", "user", "none", Junk0)>>,
      <<CallCard("addTemperatureCard", "temp", "temp", Junk0), CallButton(TRUE, Junk0)>>,
      <<CallPower(FALSE, Junk0), CallSwitch(TRUE, Junk0),
        CallCard("addStatusCard", "none", "none", Junk0)>>,
      <<CallInterval(0), CallSwitch(TRUE, Junk0)>> }

\* readings of the sketch's sensors, in thousandths
Readings == {14995, 31006}

\* what a viewer may send as "value" of a slide
SlideValues == {75, 150}

Verbs == {"toggle", "click", "slide", "reset"}

NoText == [members |-> <<>>, bad |-> 0]
NoBoot == [attempts |-> 0, polls |-> 0, up |-> FALSE, server |-> FALSE, webSocket |-> FALSE,
           handlers |-> {}, result |-> "none"]
NoArg == [id |-> "", b |-> FALSE, n |-> 0, value |-> "", status |-> ""]
NoEvent == [op |-> "none", hasBody |-> FALSE, text |-> NoText, arg |-> NoArg]
NoPrev == [toggle |-> FALSE, target |-> 0, before |-> FALSE, calls |-> <<>>]
NoBody == [cards |-> <<>>, controls |-> <<>>, timestamp |-> <<0, 0>>, connectedClients |-> 0]
NoRet == [b |-> FALSE, n |-> 0, body |-> NoBody]

StrMember(k, v) == [k |-> k, s |-> v, n |-> 0]
IntMember(k, v) == [k |-> k, s |-> IntToString(v), n |-> v]

\* the texts a viewer may send: any subset of id, action and value (value only
\* with slide), well-formed or, unless it has a single member, cut off before
\* the closing brace
Texts(ct) ==
    LET ids == {<<>>} \cup {<<StrMember("id", ct[i].id)>> : i \in 1..Len(ct)}
                      \cup {<<StrMember("id", "ghost_9")>>}
        acts == {<<>>} \cup {<<StrMember("action", v)>> : v \in Verbs}
        vals(a) == IF a = <<StrMember("action", "slide")>>
                   THEN {<<>>} \cup {<<IntMember("value", v)>> : v \in SlideValues}
                   ELSE {<<>>}
        bodies == UNION { UNION { {i \o a \o v : v \in vals(a)} : a \in acts } : i \in ids }
    IN  {[members |-> m, bad |-> 0] : m \in bodies}
        \cup {[members |-> m, bad |-> Len(m) + 1] : m \in {b \in bodies : Len(b) # 1}}

InitWith(setups, limit) ==
    /\ script \in setups
    /\ phase = "setup"
    /\ boot = NoBoot
    /\ cards = <<>>
    /\ controls = <<>>
    /\ lastUpdate = ToUnsigned(0)
    /\ updateInterval = ToUnsigned(DefaultInterval)
    /\ now = ToUnsigned(0)
    /\ since = ToUnsigned(0)
    /\ elapsed = 0
    /\ horizon = limit
    /\ sensor = CHOOSE x \in Readings : \A y \in Readings : x <= y
    /\ clients = 0
    /\ eventCbs = {}
    /\ pc = "http"
    /\ ev = NoEvent
    /\ pre = <<>>
    /\ calls = <<>>
    /\ sent = <<>>
    /\ resp = 0
    /\ prev = NoPrev
    /\ ret = NoRet
    /\ appended = <<>>

Init == InitWith(MixedSetups, MaxElapsed) \/ InitWith(StillSetups, 0)

(***************************************************************************)
(* What the last serviced item was, read off `ev` and the registry         *)
(***************************************************************************)
Doc(e) == deserializeJson(e.text).doc

\* e carried a control message: a POST /api/control with a body, or a WebSocket text
IsMessage(e) == (e.op = "apiControl" /\ e.hasBody) \/ e.op = "wsText"

\* index of the control the message names, 0 if it names none
Target(e, ct) == IF IsMessage(e) THEN FindControl(ct, AsString(Doc(e), "id")) ELSE 0

\* the verb/kind table: toggle on Switch/PowerButton, click on Button, slide on Slider
VerbFits(verb, c) ==
    \/ verb = "toggle" /\ c.type \in {CONTROL_SWITCH, CONTROL_POWER_BUTTON}
    \/ verb = "click" /\ c.type = CONTROL_BUTTON
    \/ verb = "slide" /\ c.type = CONTROL_SLIDER

Matches(e, ct) ==
    Target(e, ct) # 0 /\ VerbFits(AsString(Doc(e), "action"), ct[Target(e, ct)])

\* the callbacks of controls among the recorded invocations
ControlCalls(cs) == SelectSeq(cs, LAMBDA c : c.cb \in {"switch", "button", "slider"})

Summary(e, ct, cs) ==
    IF Matches(e, ct) /\ AsString(Doc(e), "action") = "toggle"
    THEN [toggle |-> TRUE, target |-> Target(e, ct),
          before |-> ct[Target(e, ct)].state, calls |-> ControlCalls(cs)]
    ELSE NoPrev

\* bookkeeping of a handler that serviced item e and handed back r
ServicedWith(e, cs, out, status, r) ==
    /\ ev' = e
    /\ pre' = controls
    /\ calls' = cs
    /\ sent' = out
    /\ resp' = status
    /\ prev' = Summary(ev, pre, calls)
    /\ ret' = r

Serviced(e, cs, out, status) == ServicedWith(e, cs, out, status, NoRet)

(***************************************************************************)
(* setup(): the sketch's calls, in order, then begin()                     *)
(***************************************************************************)
\* the number of times begin() waits for WiFi before it gives up
MaxAttempts == 30

\* what begin() registers: the routes of the web server and the WebSocket event
AllHandlers == {"/", "/api/data", "/api/control", "notFound", "webSocketEvent"}

BeginFrame ==
    UNCHANGED <<script, cards, controls, lastUpdate, updateInterval, now, since, elapsed,
                horizon, sensor, clients, eventCbs, pc, ev, pre, calls, sent, resp, prev, ret,
                appended>>

SetupCall(op) == phase = "setup" /\ script # <<>> /\ Head(script).op = op

SetupFrame ==
    /\ script' = Tail(script)
    /\ UNCHANGED <<phase, boot, lastUpdate, now, since, elapsed, horizon, sensor, clients, pc, ev, pre,
                   calls, sent, resp, prev, ret>>

Title == "w" \o ToString(Len(cards) + Len(controls))

AddSwitch ==
    /\ SetupCall("addSwitch")
    /\ controls' = addSwitch(controls, Title, "d", Head(script).cb, "blue", Head(script).junk)
    /\ SetupFrame /\ UNCHANGED <<cards, appended, updateInterval, eventCbs>>

AddButton ==
    /\ SetupCall("addButton")
    /\ controls' = addButton(controls, Title, "d", Head(script).cb, "green", Head(script).junk)
    /\ SetupFrame /\ UNCHANGED <<cards, appended, updateInterval, eventCbs>>

AddPowerButton ==
    /\ SetupCall("addPowerButton")
    /\ controls' = addPowerButton(controls, Title, "d", Head(script).cb, Head(script).junk)
    /\ SetupFrame /\ UNCHANGED <<cards, appended, updateInterval, eventCbs>>

AddSlider ==
    /\ SetupCall("addSlider")
    /\ controls' = addSlider(controls, Title, "d", Head(script).cb, Head(script).min,
                             Head(script).max, "blue", Head(script).junk)
    /\ SetupFrame /\ UNCHANGED <<cards, appended, updateInterval, eventCbs>>

CardFrame ==
    /\ appended' = Append(appended, <<>>)
    /\ SetupFrame /\ UNCHANGED <<controls, updateInterval, eventCbs>>

AddTemperatureCard ==
    /\ SetupCall("addTemperatureCard")
    /\ cards' = addTemperatureCard(cards, Title, Head(script).junk)
    /\ CardFrame

AddHumidityCard ==
    /\ SetupCall("addHumidityCard")
    /\ cards' = addHumidityCard(cards, Title, Head(script).junk)
    /\ CardFrame

AddMotorRPMCard ==
    /\ SetupCall("addMotorRPMCard")
    /\ cards' = addMotorRPMCard(cards, Title, Head(script).junk)
    /\ CardFrame

AddStatusCard ==
    /\ SetupCall("addStatusCard")
    /\ cards' = addStatusCard(cards, Title, "d", Head(script).vcb, Head(script).scb,
                              "blue", Head(script).junk)
    /\ CardFrame

AddPercentageCard ==
    /\ SetupCall("addPercentageCard")
    /\ cards' = addPercentageCard(cards, Title, "d", "green", Head(script).junk)
    /\ CardFrame

AddCustomCard ==
    /\ SetupCall("addCustomCard")
    /\ cards' = addCustomCard(cards, Title, "d", Head(script).vcb, Head(script).scb,
                              "purple", "", Head(script).junk)
    /\ CardFrame

AddChartCard ==
    /\ SetupCall("addChartCard")
    /\ cards' = addChartCard(cards, Title, "d", "blue", Head(script).maxPoints)
    /\ CardFrame

SetUpdateInterval ==
    /\ SetupCall("setUpdateInterval")
    /\ updateInterval' = ToUnsigned(Head(script).interval)
    /\ SetupFrame /\ UNCHANGED <<cards, controls, appended, eventCbs>>

\* the sketch assigns the public members onClientConnect, onClientDisconnect,
\* onCustomMessage
SetEvents ==
    /\ SetupCall("setEvents")
    /\ eventCbs' = Head(script).set
    /\ SetupFrame /\ UNCHANGED <<cards, controls, appended, updateInterval>>

\* begin() starts: Serial.begin, WiFi.begin, attempts = 0
BeginStart ==
    /\ phase = "setup" /\ script = <<>>
    /\ phase' = "connecting"
    /\ boot' = NoBoot
    /\ BeginFrame

\* a loop condition that waits for WiFi however long it takes
KeepWaitingForever(up, attempts) == ~up

\* the condition of begin()'s while loop, with WiFi.status() already read
KeepWaiting(up, attempts) == ~up /\ attempts < MaxAttempts

\* one evaluation of the loop condition: WiFi.status() is read; the loop body
\* waits 500 ms and counts, otherwise the loop is left
BeginPoll ==
    /\ phase = "connecting"
    /\ \E up \in BOOLEAN :
         IF KeepWaiting(up, boot.attempts)
         THEN /\ boot' = [boot EXCEPT !.polls = @ + 1, !.up = up, !.attempts = @ + 1]
              /\ phase' = phase
         ELSE /\ boot' = [boot EXCEPT !.polls = @ + 1, !.up = up]
              /\ phase' = "checking"
    /\ BeginFrame

\* the read after the loop finds WiFi connected: both servers are created, the
\* handlers registered, begin() returns true
Begin ==
    /\ phase = "checking"
    /\ phase' = "run"
    /\ boot' = [attempts |-> 0, polls |-> 0, up |-> TRUE, server |-> TRUE,
                webSocket |-> TRUE, handlers |-> AllHandlers, result |-> "true"]
    /\ BeginFrame

\* the read after the loop finds WiFi down: begin() returns false
BeginFail ==
    /\ phase = "checking"
    /\ phase' = "failed"
    /\ boot' = [boot EXCEPT !.attempts = 0, !.polls = 0, !.up = FALSE, !.result = "false"]
    /\ BeginFrame

(***************************************************************************)
(* The handlers, as functions of the registry and the inbound item         *)
(***************************************************************************)
\* handleApiControl that broadcasts only when the dispatch applied
handleApiControlSendOnChange(ct, cs, hasBody, text, x, t, n) ==
    IF hasBody
    THEN LET doc == deserializeJson(text).doc
             r == ApiDispatch(ct, doc)
             i == FindControl(ct, AsString(doc, "id"))
             a == AsString(doc, "action")
             hit == IF i = 0 THEN FALSE
                    ELSE (a = "toggle" /\ IsToggleKind(ct[i]))
                         \/ (a = "click" /\ ct[i].type = CONTROL_BUTTON)
                         \/ (a = "slide" /\ ct[i].type = CONTROL_SLIDER)
         IN  [controls |-> r.controls, calls |-> r.calls, resp |-> 200,
              sent |-> IF hit THEN <<CompactSnapshot(cs, r.controls, x, t, n)>> ELSE <<>>]
    ELSE [controls |-> ct, calls |-> <<>>, resp |-> 400, sent |-> <<>>]

\* handleApiControl that answers 400 when the body names no control
handleApiControlRejectUnknown(ct, cs, hasBody, text, x, t, n) ==
    IF hasBody /\ FindControl(ct, AsString(deserializeJson(text).doc, "id")) # 0
    THEN LET r == ApiDispatch(ct, deserializeJson(text).doc)
         IN  [controls |-> r.controls, calls |-> r.calls, resp |-> 200,
              sent |-> <<CompactSnapshot(cs, r.controls, x, t, n)>>]
    ELSE [controls |-> ct, calls |-> <<>>, resp |-> 400, sent |-> <<>>]

\* handleApiControl that does nothing for a dashboard nobody is watching
handleApiControlNeedsViewers(ct, cs, hasBody, text, x, t, n) ==
    IF hasBody /\ n > 0
    THEN LET r == ApiDispatch(ct, deserializeJson(text).doc)
         IN  [controls |-> r.controls, calls |-> r.calls, resp |-> 200,
              sent |-> <<CompactSnapshot(cs, r.controls, x, t, n)>>]
    ELSE [controls |-> ct, calls |-> <<>>, resp |-> IF hasBody THEN 200 ELSE 400,
          sent |-> <<>>]

\* handleApiControl that serialises the snapshot before it runs the dispatch loop
handleApiControlSnapshotFirst(ct, cs, hasBody, text, x, t, n) ==
    IF hasBody
    THEN LET r == ApiDispatch(ct, deserializeJson(text).doc)
         IN  [controls |-> r.controls, calls |-> r.calls, resp |-> 200,
              sent |-> <<CompactSnapshot(cs, ct, x, t, n)>>]
    ELSE [controls |-> ct, calls |-> <<>>, resp |-> 400, sent |-> <<>>]

\* handleApiControl: hasBody is server->hasArg("plain"), text is server->arg("plain")
handleApiControl(ct, cs, hasBody, text, x, t, n) ==
    IF hasBody
    THEN LET r == ApiDispatch(ct, deserializeJson(text).doc)
         IN  [controls |-> r.controls, calls |-> r.calls, resp |-> 200,
              sent |-> <<CompactSnapshot(cs, r.controls, x, t, n)>>]
    ELSE [controls |-> ct, calls |-> <<>>, resp |-> 400, sent |-> <<>>]

\* webSocketEvent's text case without its call of sendDataToClients
webSocketTextNoSend(ct, cs, text, x, t, n, evs) ==
    LET doc == deserializeJson(text).doc
        keyed == containsKey(doc, "id") /\ containsKey(doc, "action")
        r == IF keyed THEN WsDispatch(ct, doc) ELSE [controls |-> ct, calls |-> <<>>]
    IN  [controls |-> r.controls,
         calls |-> r.calls \o (IF "onCustomMessage" \in evs
                               THEN <<EventCall("onCustomMessage")>> ELSE <<>>),
         resp |-> 0,
         sent |-> <<>>]

\* webSocketEvent's text case that builds the snapshot before the dispatch loop
webSocketTextStaleSnapshot(ct, cs, text, x, t, n, evs) ==
    LET doc == deserializeJson(text).doc
        keyed == containsKey(doc, "id") /\ containsKey(doc, "action")
        r == IF keyed THEN WsDispatch(ct, doc) ELSE [controls |-> ct, calls |-> <<>>]
    IN  [controls |-> r.controls,
         calls |-> r.calls \o (IF "onCustomMessage" \in evs
                               THEN <<EventCall("onCustomMessage")>> ELSE <<>>),
         resp |-> 0,
         sent |-> IF keyed THEN <<CompactSnapshot(cs, ct, x, t, n)>> ELSE <<>>]

\* webSocketEvent, case WStype_TEXT
webSocketText(ct, cs, text, x, t, n, evs) ==
    LET doc == deserializeJson(text).doc
        keyed == containsKey(doc, "id") /\ containsKey(doc, "action")
        r == IF keyed THEN WsDispatch(ct, doc) ELSE [controls |-> ct, calls |-> <<>>]
    IN  [controls |-> r.controls,
         calls |-> r.calls \o (IF "onCustomMessage" \in evs
                               THEN <<EventCall("onCustomMessage")>> ELSE <<>>),
         resp |-> 0,
         sent |-> IF keyed THEN <<CompactSnapshot(cs, r.controls, x, t, n)>> ELSE <<>>]

\* webSocketEvent's connect case without its call of sendDataToClients
webSocketConnectedNoSend(ct, cs, x, t, n, evs) ==
    [controls |-> ct,
     calls |-> IF "onClientConnect" \in evs THEN <<EventCall("onClientConnect")>> ELSE <<>>,
     resp |-> 0,
     sent |-> <<>>]

\* webSocketEvent, case WStype_CONNECTED (n counts the viewer that just joined)
webSocketConnected(ct, cs, x, t, n, evs) ==
    [controls |-> ct,
     calls |-> IF "onClientConnect" \in evs THEN <<EventCall("onClientConnect")>> ELSE <<>>,
     resp |-> 0,
     sent |-> <<CompactSnapshot(cs, ct, x, t, n)>>]

\* webSocketEvent, case WStype_DISCONNECTED
webSocketDisconnected(ct, evs) ==
    [controls |-> ct,
     calls |-> IF "onClientDisconnect" \in evs
               THEN <<EventCall("onClientDisconnect")>> ELSE <<>>,
     resp |-> 0,
     sent |-> <<>>]

\* handleApiData that takes a chart sample whenever a snapshot is fetched
handleApiDataTakesSample(cs, ct, x, t, n) ==
    [cards |-> UpdateCharts(cs, 1, x, t), controls |-> ct, resp |-> 200,
     body |-> FullSnapshot(UpdateCharts(cs, 1, x, t), ct, x, t, n), sent |-> <<>>]

\* handleApiData that also pushes the snapshot to the viewers
handleApiDataBroadcasts(cs, ct, x, t, n) ==
    [cards |-> cs, controls |-> ct, resp |-> 200, body |-> FullSnapshot(cs, ct, x, t, n),
     sent |-> <<CompactSnapshot(cs, ct, x, t, n)>>]

\* handleApiData (GET /api/data): the registry it leaves, the response, the broadcasts
handleApiData(cs, ct, x, t, n) ==
    [cards |-> cs, controls |-> ct, resp |-> 200, body |-> FullSnapshot(cs, ct, x, t, n),
     sent |-> <<>>]

\* unsigned addition a + b, modulo 2^32
UPlus(a, b) == <<(a[1] + b[1] + (a[2] + b[2]) \div Half) % Half, (a[2] + b[2]) % Half>>

\* a tick check that compares the clock with the time the next update is due
TickDueByDeadline(t, last, interval) == UGe(t, UPlus(last, interval))

\* a tick check that never finds the update due
TickDueNever(t, last, interval) == FALSE

\* if (millis() - lastUpdate >= updateInterval), in unsigned arithmetic
TickDue(t, last, interval) == UGe(USub(t, last), interval)

(***************************************************************************)
(* loop(): server->handleClient(), webSocket->loop(), then the tick check  *)
(***************************************************************************)
Running(at) == phase = "run" /\ pc = at

HandleApiControl ==
    /\ Running("http")
    /\ \E hasBody \in BOOLEAN :
         \E text \in IF hasBody THEN Texts(controls) ELSE {NoText} :
            \E r \in {handleApiControl(controls, cards, hasBody, text, sensor, now, clients)} :
                /\ controls' = r.controls
                /\ Serviced([op |-> "apiControl", hasBody |-> hasBody, text |-> text, arg |-> NoArg],
                            r.calls, r.sent, r.resp)
    /\ pc' = "ws"
    /\ UNCHANGED <<script, phase, boot, cards, lastUpdate, updateInterval, now, since, elapsed, horizon,
                   sensor, clients, eventCbs, appended>>

HandleApiData ==
    /\ Running("http")
    /\ \E r \in {handleApiData(cards, controls, sensor, now, clients)} :
         /\ cards' = r.cards
         /\ controls' = r.controls
         /\ ServicedWith([op |-> "apiData", hasBody |-> FALSE, text |-> NoText, arg |-> NoArg],
                         <<>>, r.sent, r.resp, [NoRet EXCEPT !.body = r.body])
    /\ pc' = "ws"
    /\ UNCHANGED <<script, phase, boot, lastUpdate, updateInterval, now, since, elapsed, horizon,
                   sensor, clients, eventCbs, appended>>

\* no request pending
NoRequest ==
    /\ Running("http")
    /\ pc' = "ws"
    /\ UNCHANGED <<script, phase, boot, cards, controls, lastUpdate, updateInterval, now, since,
                   elapsed, horizon, sensor, clients, eventCbs, ev, pre, calls, sent, resp, prev, ret,
                   appended>>

WsText ==
    /\ Running("ws")
    /\ clients > 0
    /\ \E text \in Texts(controls) :
         \E r \in {webSocketText(controls, cards, text, sensor, now, clients, eventCbs)} :
             /\ controls' = r.controls
             /\ Serviced([op |-> "wsText", hasBody |-> TRUE, text |-> text, arg |-> NoArg],
                         r.calls, r.sent, r.resp)
    /\ pc' = "tick"
    /\ UNCHANGED <<script, phase, boot, cards, lastUpdate, updateInterval, now, since, elapsed, horizon,
                   sensor, clients, eventCbs, appended>>

WsConnected ==
    /\ Running("ws")
    /\ clients < MaxClients
    /\ clients' = clients + 1
    /\ LET r == webSocketConnected(controls, cards, sensor, now, clients + 1, eventCbs)
       IN  Serviced([op |-> "wsConnected", hasBody |-> FALSE, text |-> NoText, arg |-> NoArg],
                    r.calls, r.sent, r.resp)
    /\ pc' = "tick"
    /\ UNCHANGED <<script, phase, boot, cards, controls, lastUpdate, updateInterval, now, since,
                   elapsed, horizon, sensor, eventCbs, appended>>

WsDisconnected ==
    /\ Running("ws")
    /\ clients > 0
    /\ clients' = clients - 1
    /\ LET r == webSocketDisconnected(controls, eventCbs)
       IN  Serviced([op |-> "wsDisconnected", hasBody |-> FALSE, text |-> NoText, arg |-> NoArg],
                    r.calls, r.sent, r.resp)
    /\ pc' = "tick"
    /\ UNCHANGED <<script, phase, boot, cards, controls, lastUpdate, updateInterval, now, since,
                   elapsed, horizon, sensor, eventCbs, appended>>

\* no WebSocket event pending
NoWsEvent ==
    /\ Running("ws")
    /\ pc' = "tick"
    /\ UNCHANGED <<script, phase, boot, cards, controls, lastUpdate, updateInterval, now, since,
                   elapsed, horizon, sensor, clients, eventCbs, ev, pre, calls, sent, resp, prev, ret,
                   appended>>

\* the tick: one sample per chart card, one broadcast, lastUpdate = millis();
\* d is the time that passes before that last millis() call
Tick ==
    /\ Running("tick")
    /\ TickDue(now, lastUpdate, updateInterval)
    /\ cards' = UpdateCharts(cards, 1, sensor, now)
    /\ appended' = [i \in 1..Len(cards) |->
                      IF cards[i].type = CARD_CHART /\ cards[i].valueCallback # "none"
                      THEN Append(appended[i],
                                  [timestamp |-> now, value |-> ChartValue(sensor)])
                      ELSE appended[i]]
    /\ Serviced([op |-> "tick", hasBody |-> FALSE, text |-> NoText, arg |-> NoArg], <<>>,
                <<CompactSnapshot(cards', controls, sensor, now, clients)>>, 0)
    /\ \E d \in {0, 1} :
         /\ d = 0 \/ elapsed < horizon
         /\ now' = UAdd(now, d)
         /\ elapsed' = elapsed + d
         /\ lastUpdate' = UAdd(now, d)
         /\ since' = ToUnsigned(0)
    /\ pc' = "http"
    /\ UNCHANGED <<script, phase, boot, controls, updateInterval, horizon, sensor, clients,
                   eventCbs>>

NoTick ==
    /\ Running("tick")
    /\ ~TickDue(now, lastUpdate, updateInterval)
    /\ pc' = "http"
    /\ UNCHANGED <<script, phase, boot, cards, controls, lastUpdate, updateInterval, now, since,
                   elapsed, horizon, sensor, clients, eventCbs, ev, pre, calls, sent, resp, prev, ret,
                   appended>>

(***************************************************************************)
(* The sketch's own loop(): accessor calls between two runs of the         *)
(* dashboard's loop()                                                      *)
(***************************************************************************)
GhostId == "ghost_9"
ControlIds == {controls[i].id : i \in 1..Len(controls)} \cup {GhostId}
CardIds == {cards[i].id : i \in 1..Len(cards)} \cup {GhostId}

\* values and statuses the sketch passes to updateCard
CardTexts == {"42"}
StatusTexts == {"", "ok"}

AccessorCall(op, a) == [op |-> op, hasBody |-> FALSE, text |-> NoText, arg |-> a]

AccessorFrame ==
    UNCHANGED <<script, phase, boot, lastUpdate, updateInterval, now, since, elapsed, horizon, sensor,
                clients, eventCbs, pc, appended>>

GetSwitchState ==
    /\ Running("http")
    /\ \E id \in ControlIds :
         ServicedWith(AccessorCall("getSwitchState", [NoArg EXCEPT !.id = id]), <<>>, <<>>, 0,
                      [NoRet EXCEPT !.b = getSwitchState(controls, id)])
    /\ UNCHANGED <<cards, controls>>
    /\ AccessorFrame

SetSwitchState ==
    /\ Running("http")
    /\ \E id \in ControlIds, state \in BOOLEAN :
         \E r \in {setSwitchState(controls, id, state)} :
            /\ controls' = r.controls
            /\ Serviced(AccessorCall("setSwitchState", [NoArg EXCEPT !.id = id, !.b = state]),
                        r.calls, <<>>, 0)
    /\ UNCHANGED cards
    /\ AccessorFrame

GetSliderValue ==
    /\ Running("http")
    /\ \E id \in ControlIds :
         ServicedWith(AccessorCall("getSliderValue", [NoArg EXCEPT !.id = id]), <<>>, <<>>, 0,
                      [NoRet EXCEPT !.n = getSliderValue(controls, id)])
    /\ UNCHANGED <<cards, controls>>
    /\ AccessorFrame

SetSliderValue ==
    /\ Running("http")
    /\ \E id \in ControlIds, value \in SlideValues :
         \E r \in {setSliderValue(controls, id, value)} :
            /\ controls' = r.controls
            /\ Serviced(AccessorCall("setSliderValue", [NoArg EXCEPT !.id = id, !.n = value]),
                        r.calls, <<>>, 0)
    /\ UNCHANGED cards
    /\ AccessorFrame

UpdateCard ==
    /\ Running("http")
    /\ \E id \in CardIds, value \in CardTexts, status \in StatusTexts :
         /\ cards' = updateCard(cards, id, value, status)
         /\ Serviced(AccessorCall("updateCard",
                                  [NoArg EXCEPT !.id = id, !.value = value, !.status = status]),
                     <<>>, <<>>, 0)
    /\ UNCHANGED controls
    /\ AccessorFrame

Accessors ==
    GetSwitchState \/ SetSwitchState \/ GetSliderValue \/ SetSliderValue \/ UpdateCard

(***************************************************************************)
(* The environment: time passes, the sensors move                          *)
(***************************************************************************)
ClockSteps ==
    {1} \cup (IF updateInterval[1] = 0 /\ updateInterval[2] > 2
              THEN {updateInterval[2] - 1} ELSE {})

Elapse ==
    /\ phase = "run"
    /\ elapsed < horizon
    /\ \E d \in ClockSteps : now' = UAdd(now, d) /\ since' = UAdd(since, d)
    /\ elapsed' = elapsed + 1
    /\ UNCHANGED <<script, phase, boot, cards, controls, lastUpdate, updateInterval, horizon,
                   sensor, clients, eventCbs, pc, ev, pre, calls, sent, resp, prev, ret,
                   appended>>

\* a long time passes: a quarter of the range of millis().  The sketch calls
\* loop() far more often than that, so an update that is due runs before the
\* clock moves again
LongStep == 2 ^ 30

ElapseLong ==
    /\ phase = "run"
    /\ ~TickDue(now, lastUpdate, updateInterval)
    /\ now' = UAdd(now, LongStep)
    /\ since' = UAdd(since, LongStep)
    /\ UNCHANGED <<script, phase, boot, cards, controls, lastUpdate, updateInterval, elapsed,
                   horizon, sensor, clients, eventCbs, pc, ev, pre, calls, sent, resp, prev,
                   ret, appended>>

SensorChange ==
    /\ phase = "run"
    /\ \E x \in Readings \ {sensor} : sensor' = x
    /\ UNCHANGED <<script, phase, boot, cards, controls, lastUpdate, updateInterval, now, since,
                   elapsed, horizon, clients, eventCbs, pc, ev, pre, calls, sent, resp, prev, ret,
                   appended>>

(***************************************************************************)
(* Specifications                                                          *)
(***************************************************************************)
SetupControls == AddSwitch \/ AddButton \/ AddPowerButton \/ AddSlider

SetupCards ==
    \/ AddTemperatureCard \/ AddHumidityCard \/ AddMotorRPMCard \/ AddStatusCard
    \/ AddPercentageCard \/ AddCustomCard \/ AddChartCard

Next ==
    \/ SetupControls \/ SetupCards \/ SetUpdateInterval \/ SetEvents
    \/ BeginStart \/ BeginPoll \/ Begin \/ BeginFail
    \/ HandleApiControl \/ HandleApiData \/ NoRequest
    \/ WsText \/ WsConnected \/ WsDisconnected \/ NoWsEvent
    \/ Tick \/ NoTick
    \/ Accessors
    \/ Elapse \/ SensorChange

Spec == Init /\ [][Next]_vars

\* sketches with controls only, while no update falls due
InitDispatch == InitWith(ControlSetups, 0)

NextDispatch ==
    \/ SetupControls \/ SetEvents \/ BeginStart \/ BeginPoll \/ Begin
    \/ HandleApiControl \/ NoRequest
    \/ WsText \/ WsConnected \/ WsDisconnected \/ NoWsEvent
    \/ NoTick

SpecDispatch == InitDispatch /\ [][NextDispatch]_vars

\* sketches with cards only, and no inbound traffic
InitChart == InitWith(ChartSetups, MaxPoints + 2)

NextChart ==
    \/ AddTemperatureCard \/ AddChartCard \/ SetUpdateInterval
    \/ BeginStart \/ BeginPoll \/ Begin
    \/ NoRequest \/ NoWsEvent
    \/ Tick \/ NoTick
    \/ Elapse \/ SensorChange

SpecChart == InitChart /\ [][NextChart]_vars

\* sketches whose update interval is one long step or a little more, run for
\* as long as it takes the clock to wrap around: the sketch's loop() calls the
\* dashboard's loop() again and again, and time keeps passing
LiveSetups ==
    { <<CallInterval(LongStep + 1), CallCard("addStatusCard", "none", "none", Junk0),
        CallSwitch(TRUE, Junk0), CallSlider(TRUE, 0, 100, Junk0)>>,
      <<CallInterval(LongStep), CallSwitch(FALSE, Junk0)>> }

InitLive == InitWith(LiveSetups, 0)

\* the viewers of this run connect, disconnect and fetch, and send no commands
HttpStep == HandleApiData \/ NoRequest
WsStep == WsConnected \/ WsDisconnected \/ NoWsEvent
TickStep == Tick \/ NoTick

NextLive ==
    \/ AddStatusCard \/ AddSwitch \/ AddSlider \/ SetUpdateInterval
    \/ BeginStart \/ BeginPoll \/ Begin
    \/ HttpStep \/ WsStep \/ TickStep
    \/ Accessors
    \/ ElapseLong

SpecLive ==
    /\ InitLive /\ [][NextLive]_vars
    /\ WF_vars(HttpStep) /\ WF_vars(WsStep) /\ WF_vars(TickStep)
    /\ WF_vars(ElapseLong)

\* begin() from its call to its return, then an idle loop(); every wait and
\* every read of the WiFi status returns
InitBegin == InitWith(ControlSetups, 0)

NextBegin ==
    \/ SetupControls \/ SetEvents
    \/ BeginStart \/ BeginPoll \/ Begin \/ BeginFail
    \/ NoRequest \/ NoWsEvent \/ NoTick

SpecBegin ==
    /\ InitBegin /\ [][NextBegin]_vars
    /\ WF_vars(BeginPoll) /\ WF_vars(Begin \/ BeginFail)

(***************************************************************************)
(* Properties of the control dispatch                                      *)
(***************************************************************************)
Action(e) == AsString(Doc(e), "action")

\* the control callback of c's kind is set
Bound(c) ==
    CASE IsToggleKind(c) -> c.switchCallback
      [] c.type = CONTROL_BUTTON -> c.buttonCallback
      [] c.type = CONTROL_SLIDER -> c.sliderCallback

KindCallback(c) ==
    CASE IsToggleKind(c) -> "switch"
      [] c.type = CONTROL_BUTTON -> "button"
      [] c.type = CONTROL_SLIDER -> "slider"

\* the handler reached its dispatch loop: a body was present (request/response
\* channel), or the document holds both keys (push channel)
Dispatched(e) ==
    \/ e.op = "apiControl" /\ e.hasBody
    \/ e.op = "wsText" /\ containsKey(Doc(e), "id") /\ containsKey(Doc(e), "action")

\* C1: a message that names a control with a verb that does not fit the control's
\* kind, on either channel, leaves state and value of every control as they were
\* and invokes no switch, button or slider callback.
C1_MismatchChangesNothing ==
    (IsMessage(ev) /\ Target(ev, pre) # 0 /\ ~Matches(ev, pre))
        => controls = pre /\ ControlCalls(calls) = <<>>

C1_Witness ==
    /\ ev.op = "wsText" /\ Target(ev, pre) # 0
    /\ Action(ev) = "toggle" /\ pre[Target(ev, pre)].type = CONTROL_SLIDER

\* C2: a message whose verb fits the kind of the control it names, on either
\* channel, invokes exactly one control callback, the one set for that kind, on
\* that control (none when the sketch registered the control with an empty
\* callback), and calls sendDataToClients exactly once.
C2_MatchOneCallbackOneBroadcast ==
    Matches(ev, pre) =>
        LET c == pre[Target(ev, pre)]
            made == ControlCalls(calls)
        IN  /\ Len(sent) = 1
            /\ Bound(c) => /\ Len(made) = 1
                           /\ made[1].cb = KindCallback(c)
                           /\ made[1].id = c.id
            /\ ~Bound(c) => made = <<>>

C2_Witness ==
    /\ ev.op = "wsText" /\ Matches(ev, pre) /\ Action(ev) = "click"
    /\ Bound(pre[Target(ev, pre)])
    /\ Len(ControlCalls(calls)) = 1 /\ Len(sent) = 1

\* C3 as stated: a message that names no registered control, or whose verb does
\* not fit the control's kind, triggers no broadcast on either channel.
C3_NoEffectNoBroadcast ==
    (IsMessage(ev) /\ ~Matches(ev, pre)) => sent = <<>>

\* C3 as amended: such a message changes no control and invokes no control
\* callback, yet sendDataToClients is still called exactly once whenever the
\* handler reached its dispatch loop (a body is present on the request/response
\* channel, the message holds both id and action on the push channel), and not
\* at all otherwise.
C3_NoEffectStillBroadcasts ==
    (IsMessage(ev) /\ ~Matches(ev, pre)) =>
        /\ controls = pre
        /\ ControlCalls(calls) = <<>>
        /\ Len(sent) = IF Dispatched(ev) THEN 1 ELSE 0

C3_Witness ==
    /\ ev.op = "apiControl" /\ ev.hasBody /\ ev.text.bad = 0
    /\ AsString(Doc(ev), "id") = "ghost_9" /\ Target(ev, pre) = 0
    /\ Action(ev) = "toggle"
    /\ Len(sent) = 1

\* C6: two toggles of the same Switch or PowerButton in succession leave its
\* state as it was before the first, and its toggle callback (when set) is
\* invoked once by each, first with the negated original state, then with the
\* original state.
C6_ToggleTwiceRestores ==
    (prev.toggle /\ Matches(ev, pre) /\ Action(ev) = "toggle"
        /\ Target(ev, pre) = prev.target) =>
        LET c == pre[prev.target]
        IN  /\ c.state = ~prev.before
            /\ controls[prev.target].state = prev.before
            /\ Bound(c) => /\ prev.calls = <<SwitchCall(c.id, ~prev.before)>>
                           /\ ControlCalls(calls) = <<SwitchCall(c.id, prev.before)>>

C6_Witness ==
    /\ prev.toggle /\ Matches(ev, pre) /\ Action(ev) = "toggle"
    /\ Target(ev, pre) = prev.target
    /\ Bound(pre[prev.target])
    /\ Len(prev.calls) = 1 /\ Len(ControlCalls(calls)) = 1
    /\ controls[prev.target].state = prev.before

\* C7: a slide on a Slider that carries a value stores exactly that value and
\* passes it to the slide callback (when set), whether or not it lies inside
\* [minValue, maxValue].
C7_SlideStoresRequestedValue ==
    (Matches(ev, pre) /\ Action(ev) = "slide" /\ containsKey(Doc(ev), "value")) =>
        LET c == pre[Target(ev, pre)]
            v == Member(Doc(ev), "value").n
        IN  /\ controls[Target(ev, pre)].value = v
            /\ Bound(c) => ControlCalls(calls) = <<SliderCall(c.id, v)>>

C7_Witness ==
    /\ Matches(ev, pre) /\ Action(ev) = "slide" /\ containsKey(Doc(ev), "value")
    /\ Bound(pre[Target(ev, pre)])
    /\ Member(Doc(ev), "value").n > pre[Target(ev, pre)].maxValue
    /\ controls[Target(ev, pre)].value = Member(Doc(ev), "value").n
    /\ ControlCalls(calls) # <<>>

\* the text is not a JSON object holding both id and action
Malformed(text) ==
    \/ deserializeJson(text).err
    \/ ~containsKey(deserializeJson(text).doc, "id")
    \/ ~containsKey(deserializeJson(text).doc, "action")

\* C8: a POST /api/control whose body is unparsable or lacks id or action is
\* answered with HTTP 400 and leaves the controls as they were.
C8_MalformedBodyRejected ==
    (ev.op = "apiControl" /\ ev.hasBody /\ Malformed(ev.text))
        => resp = 400 /\ controls = pre

\* C9: POST /api/control answers 400 exactly when no body is present, and then
\* changes no control, invokes no callback and broadcasts nothing; with a body
\* it answers 200 whether or not the dispatch applied.
C9_StatusTellsOnlyBodyPresence ==
    ev.op = "apiControl" =>
        /\ resp = 400 <=> ~ev.hasBody
        /\ ev.hasBody => resp = 200
        /\ ~ev.hasBody => controls = pre /\ calls = <<>> /\ sent = <<>>

C9_Witness == ev.op = "apiControl" /\ ~ev.hasBody /\ resp = 400 /\ sent = <<>>

\* C10: a push-channel text that is not valid JSON, or lacks id or action, is
\* dropped: no control changes, no control callback is invoked, nothing is
\* broadcast (the handler has no other way to send).
C10_MalformedTextDropped ==
    (ev.op = "wsText" /\ Malformed(ev.text))
        => controls = pre /\ ControlCalls(calls) = <<>> /\ sent = <<>>

\* the text holds the two keys of the message schema {id, action, value?}
HasKeys(e) == containsKey(Doc(e), "id") /\ containsKey(Doc(e), "action")

\* C11: a message {id, action, value?} has the same effect on either channel:
\* what the push channel made of it (controls, control callbacks and their
\* arguments, number of broadcasts) is what POST /api/control makes of the
\* same text in the same registry, and the other way round.
C11_ChannelsAgree ==
    /\ (ev.op = "wsText" /\ HasKeys(ev)) =>
          LET a == handleApiControl(pre, cards, TRUE, ev.text, sensor, now, clients)
          IN  /\ controls = a.controls
              /\ ControlCalls(calls) = ControlCalls(a.calls)
              /\ Len(sent) = Len(a.sent)
    /\ (ev.op = "apiControl" /\ ev.hasBody /\ HasKeys(ev)) =>
          LET w == webSocketText(pre, cards, ev.text, sensor, now, clients, eventCbs)
          IN  /\ controls = w.controls
              /\ ControlCalls(calls) = ControlCalls(w.calls)
              /\ Len(sent) = Len(w.sent)

C11_Witness ==
    /\ ev.op = "wsText" /\ Matches(ev, pre) /\ Action(ev) = "toggle"
    /\ pre[Target(ev, pre)].type = CONTROL_POWER_BUTTON
    /\ Bound(pre[Target(ev, pre)])
    /\ controls # pre
    /\ controls = handleApiControl(pre, cards, TRUE, ev.text, sensor, now, clients).controls

\* what a snapshot shows of control c
Shown(c) == [id |-> c.id, state |-> c.state, value |-> c.value]

\* C12: a message that fits its control is followed, in the same handler, by
\* one broadcast, and that broadcast shows every control as the handler left
\* it: the toggled state, the slid value.
C12_BroadcastShowsNewState ==
    Matches(ev, pre) =>
        LET t == Target(ev, pre)
        IN  /\ Len(sent) = 1
            /\ Len(sent[1].controls) = Len(controls)
            /\ \A i \in 1..Len(controls) : sent[1].controls[i] = Shown(controls[i])
            /\ Action(ev) = "toggle" => sent[1].controls[t].state = ~pre[t].state
            /\ Action(ev) = "slide" => sent[1].controls[t].value = AsInt(Doc(ev), "value")

C12_Witness ==
    /\ ev.op = "wsText" /\ Matches(ev, pre) /\ Action(ev) = "toggle"
    /\ Len(sent) = 1
    /\ sent[1].controls[Target(ev, pre)].state = ~pre[Target(ev, pre)].state
    /\ Len(ControlCalls(calls)) = 1

\* C25: a click on a Button, on either channel, invokes the Button's click
\* callback exactly once (there is nothing to invoke when the sketch set none)
\* and no other control callback, and leaves every control, the Button
\* included, exactly as it was.
C25_ClickChangesNothing ==
    (Matches(ev, pre) /\ Action(ev) = "click") =>
        LET c == pre[Target(ev, pre)]
        IN  /\ c.type = CONTROL_BUTTON
            /\ ControlCalls(calls) = IF c.buttonCallback THEN <<ButtonCall(c.id)>> ELSE <<>>
            /\ controls = pre

C25_Witness ==
    /\ ev.op = "apiControl" /\ Matches(ev, pre) /\ Action(ev) = "click"
    /\ pre[Target(ev, pre)].buttonCallback
    /\ calls = <<ButtonCall(pre[Target(ev, pre)].id)>>
    /\ controls = pre /\ Len(pre) = 2

(***************************************************************************)
(* Properties of the registry                                              *)
(***************************************************************************)
\* the prefix each kind of card and of control gives its ids
CardPrefix(type) ==
    CASE type = CARD_TEMPERATURE -> "temp_"
      [] type = CARD_HUMIDITY -> "hum_"
      [] type = CARD_MOTOR_RPM -> "rpm_"
      [] type = CARD_STATUS -> "status_"
      [] type = CARD_PERCENTAGE -> "pct_"
      [] type = CARD_CUSTOM -> "custom_"
      [] type = CARD_CHART -> "chart_"

ControlPrefix(type) ==
    CASE type = CONTROL_SWITCH -> "switch_"
      [] type = CONTROL_BUTTON -> "btn_"
      [] type = CONTROL_POWER_BUTTON -> "power_"
      [] type = CONTROL_SLIDER -> "slider_"

\* ids are the kind's prefix and the number of widgets registered before in
\* the same collection; no two cards and no two controls share an id
IdsWellFormed ==
    /\ \A i \in 1..Len(cards) : cards[i].id = CardPrefix(cards[i].type) \o ToString(i - 1)
    /\ \A i \in 1..Len(controls) :
          controls[i].id = ControlPrefix(controls[i].type) \o ToString(i - 1)
    /\ \A i, j \in 1..Len(cards) : i # j => cards[i].id # cards[j].id
    /\ \A i, j \in 1..Len(controls) : i # j => controls[i].id # controls[j].id

\* no step removes a widget or changes the id of one
IdsKept ==
    /\ Len(cards') >= Len(cards) /\ Len(controls') >= Len(controls)
    /\ \A i \in 1..Len(cards) : cards'[i].id = cards[i].id
    /\ \A i \in 1..Len(controls) : controls'[i].id = controls[i].id

\* C19: after any registrations card ids are pairwise distinct and control
\* ids are pairwise distinct, each id is its kind's prefix followed by a
\* counter that grows with every registration in its collection, and no
\* dispatch, accessor, tick or snapshot changes an id.
C19_IdsUniqueAndStable == []IdsWellFormed /\ [][IdsKept]_vars

C19_Witness ==
    /\ Len(cards) = 2 /\ cards[1].id = "hum_0" /\ cards[2].id = "rpm_1"
    /\ ev.op = "updateCard" /\ ev.arg.id = "rpm_1" /\ cards[2].value = "42"

(***************************************************************************)
(* Properties of the accessors                                             *)
(***************************************************************************)
\* the registry holds no widget of the kind accessor call e needs under e's id
NoSuchWidget(e, cs, ct) ==
    CASE e.op \in {"getSwitchState", "setSwitchState"} ->
             ~\E i \in 1..Len(ct) :
                 ct[i].id = e.arg.id /\ ct[i].type \in {CONTROL_SWITCH, CONTROL_POWER_BUTTON}
      [] e.op \in {"getSliderValue", "setSliderValue"} ->
             ~\E i \in 1..Len(ct) : ct[i].id = e.arg.id /\ ct[i].type = CONTROL_SLIDER
      [] e.op = "updateCard" -> ~\E i \in 1..Len(cs) : cs[i].id = e.arg.id
      [] OTHER -> FALSE

\* C17: an accessor called with an id that names no widget of the kind it
\* needs changes no card and no control and invokes no callback;
\* getSwitchState then returns false and getSliderValue returns 0.
C17_UnknownIdIsNoOp ==
    [][(phase = "run" /\ pc' = pc /\ NoSuchWidget(ev', cards, controls)) =>
          /\ cards' = cards
          /\ controls' = controls
          /\ appended' = appended
          /\ calls' = <<>>
          /\ sent' = <<>>
          /\ ev'.op = "getSwitchState" => ret'.b = FALSE
          /\ ev'.op = "getSliderValue" => ret'.n = 0]_vars

C17_Witness ==
    /\ ev.op = "setSliderValue" /\ NoSuchWidget(ev, cards, pre)
    /\ \E i \in 1..Len(pre) : pre[i].id = ev.arg.id /\ pre[i].type = CONTROL_BUTTON
    /\ controls = pre /\ calls = <<>>

\* C18: setSwitchState(id, s) on a Switch or PowerButton stores s, changes
\* nothing else, invokes the toggle callback (when set) exactly once with s,
\* and getSwitchState(id) then returns s; setSliderValue(id, v) on a Slider
\* does the same with the value and the slide callback.  Both hold whether or
\* not the new value differs from the old one.
C18_SetThenGet ==
    /\ (ev.op = "setSwitchState" /\ ~NoSuchWidget(ev, cards, pre)) =>
          \E i \in 1..Len(pre) :
              /\ pre[i].id = ev.arg.id
              /\ controls = [pre EXCEPT ![i].state = ev.arg.b]
              /\ ControlCalls(calls) = IF Bound(pre[i])
                                       THEN <<SwitchCall(ev.arg.id, ev.arg.b)>> ELSE <<>>
              /\ getSwitchState(controls, ev.arg.id) = ev.arg.b
    /\ (ev.op = "setSliderValue" /\ ~NoSuchWidget(ev, cards, pre)) =>
          \E i \in 1..Len(pre) :
              /\ pre[i].id = ev.arg.id
              /\ controls = [pre EXCEPT ![i].value = ev.arg.n]
              /\ ControlCalls(calls) = IF Bound(pre[i])
                                       THEN <<SliderCall(ev.arg.id, ev.arg.n)>> ELSE <<>>
              /\ getSliderValue(controls, ev.arg.id) = ev.arg.n

C18_Witness ==
    /\ ev.op = "setSwitchState" /\ ~NoSuchWidget(ev, cards, pre)
    /\ \E i \in 1..Len(pre) :
          /\ pre[i].id = ev.arg.id /\ Bound(pre[i])
          /\ pre[i].state = ev.arg.b /\ ev.arg.b
    /\ calls = <<SwitchCall(ev.arg.id, TRUE)>>

(***************************************************************************)
(* Properties of the reach of a command                                    *)
(***************************************************************************)
\* C27: a step that services a command, on either channel, leaves every
\* control whose id is not the command's id as it was, changes at most one
\* control, changes no card (stored value, status, chart samples) and adds or
\* removes no card and no control.
C27_CommandTouchesOneControl ==
    [][(phase = "run" /\ pc' # pc /\ IsMessage(ev')) =>
          /\ Len(controls') = Len(controls)
          /\ \A i \in 1..Len(controls) :
                controls[i].id # AsString(Doc(ev'), "id") => controls'[i] = controls[i]
          /\ Cardinality({i \in 1..Len(controls) : controls'[i] # controls[i]}) <= 1
          /\ \A i \in 1..Len(controls) :
                [controls'[i] EXCEPT !.state = controls[i].state, !.value = controls[i].value]
                    = controls[i]
          /\ cards' = cards
          /\ appended' = appended]_vars

C27_Witness ==
    /\ ev.op = "wsText" /\ Matches(ev, pre) /\ Action(ev) = "toggle"
    /\ Len(pre) = 2 /\ Target(ev, pre) = 2
    /\ pre[1].state /\ controls[1] = pre[1]
    /\ controls[2].state = ~pre[2].state
    /\ Len(cards) = 1 /\ cards[1].value = "42" /\ cards[1].status = "ok"

(***************************************************************************)
(* Properties of the sliders                                               *)
(***************************************************************************)
Sliders(ct) == {i \in 1..Len(ct) : ct[i].type = CONTROL_SLIDER}

InRange(c, v) == c.minValue <= v /\ v <= c.maxValue

\* item e is a slide for slider i of ct, or a setSliderValue call for it
SlidesTo(e, ct, i) ==
    IsMessage(e) /\ Dispatched(e) /\ Matches(e, ct) /\ Target(e, ct) = i /\ Action(e) = "slide"

SetsTo(e, ct, i) == e.op = "setSliderValue" /\ FindSlider(ct, e.arg.id) = i

\* e is for slider i and carries a value inside the slider's range
CarriesInside(e, ct, i) ==
    \/ SlidesTo(e, ct, i) /\ containsKey(Doc(e), "value")
          /\ InRange(ct[i], Member(Doc(e), "value").n)
    \/ SetsTo(e, ct, i) /\ InRange(ct[i], e.arg.n)

\* a slider registered with min <= max starts at min
SliderStartsAtMin ==
    (Len(controls') = Len(controls) + 1 /\ controls'[Len(controls')].type = CONTROL_SLIDER
        /\ controls'[Len(controls')].minValue <= controls'[Len(controls')].maxValue) =>
        LET c == controls'[Len(controls')]
        IN  c.value = c.minValue /\ InRange(c, c.value)

\* the range of a slider never changes; its value changes only in a step that
\* services a slide or a setSliderValue for it, and a value inside the range
\* is followed by one inside the range when that item carries one inside
SliderKeepsRange ==
    \A i \in Sliders(controls) :
        /\ controls'[i].type = CONTROL_SLIDER
        /\ controls'[i].minValue = controls[i].minValue
        /\ controls'[i].maxValue = controls[i].maxValue
        /\ controls'[i].value # controls[i].value =>
              SlidesTo(ev', controls, i) \/ SetsTo(ev', controls, i)
        /\ (InRange(controls[i], controls[i].value)
               /\ (controls'[i].value # controls[i].value => CarriesInside(ev', controls, i)))
              => InRange(controls'[i], controls'[i].value)

\* C26: a slider registered with min <= max starts at minValue; minValue and
\* maxValue never change; and the value stays inside [minValue, maxValue] for
\* as long as every slide and every setSliderValue for it carries a value
\* inside.
C26_SliderStaysInRange == [][SliderStartsAtMin /\ SliderKeepsRange]_vars

C26_Witness ==
    /\ ev.op = "setSliderValue" /\ ev.arg.n = 75
    /\ \E i \in Sliders(controls) :
          /\ SetsTo(ev, pre, i) /\ pre[i].value = pre[i].minValue /\ pre[i].minValue = 50
          /\ controls[i].value = 75 /\ InRange(controls[i], controls[i].value)

(***************************************************************************)
(* Properties of the snapshots                                             *)
(***************************************************************************)
\* C13: the step in which a viewer's connection opens broadcasts exactly one
\* compact snapshot, of the registry as it is, to the viewers then connected,
\* the new one counted; it changes no control, no card and no chart store, and
\* does not wait for or count as an update.
C13_ConnectBroadcastsOnce ==
    [][clients' = clients + 1 =>
          /\ ev'.op = "wsConnected"
          /\ sent' = <<CompactSnapshot(cards, controls, sensor, now, clients + 1)>>
          /\ sent'[1].connectedClients = clients'
          /\ ControlCalls(calls') = <<>>
          /\ controls' = controls
          /\ cards' = cards
          /\ appended' = appended
          /\ lastUpdate' = lastUpdate]_vars

C13_Witness ==
    /\ ev.op = "wsConnected"
    /\ Len(sent) = 1 /\ sent[1].connectedClients = clients /\ clients >= 1
    /\ \E i \in 1..Len(cards) : cards[i].type = CARD_CHART /\ cards[i].chartData # <<>>
    /\ ~TickDue(now, lastUpdate, updateInterval)

\* C15: serving GET /api/data leaves every card (stored value, status, chart
\* samples), every control and lastUpdate as they were, and broadcasts nothing.
C15_SnapshotRequestChangesNothing ==
    [][(pc = "http" /\ pc' = "ws" /\ ev'.op = "apiData") =>
          /\ cards' = cards
          /\ controls' = controls
          /\ lastUpdate' = lastUpdate
          /\ updateInterval' = updateInterval
          /\ appended' = appended
          /\ sent' = <<>>
          /\ calls' = <<>>
          /\ resp' = 200]_vars

C15_Witness ==
    /\ ev.op = "apiData" /\ resp = 200 /\ sent = <<>>
    /\ Len(ret.body.cards) = Len(cards)
    /\ \E i \in 1..Len(cards) :
          /\ cards[i].type = CARD_CHART /\ cards[i].chartData # <<>>
          /\ ret.body.cards[i].chartData = cards[i].chartData

\* the fields the two snapshots share
SharedCardFields == {"id", "value", "status", "type", "chartData"}
SharedControlFields == {"id", "state", "value"}

\* record r cut down to the fields of F it has
Restrict(r, F) == [f \in DOMAIN r \cap F |-> r[f]]

\* C16: in every state of the running dashboard the compact snapshot is the
\* full snapshot of the same registry cut down to the shared fields: the same
\* cards and controls in the same order, equal id, value, status, type and
\* chartData of every card, equal id, state and value of every control, equal
\* connectedClients.
C16_CompactIsProjectionOfFull ==
    phase = "run" =>
        LET full == FullSnapshot(cards, controls, sensor, now, clients)
            compact == CompactSnapshot(cards, controls, sensor, now, clients)
        IN  /\ Len(compact.cards) = Len(full.cards)
            /\ Len(compact.controls) = Len(full.controls)
            /\ \A i \in 1..Len(full.cards) :
                  /\ DOMAIN compact.cards[i] \subseteq SharedCardFields
                  /\ compact.cards[i] = Restrict(full.cards[i], SharedCardFields)
            /\ \A i \in 1..Len(full.controls) :
                  compact.controls[i] = Restrict(full.controls[i], SharedControlFields)
            /\ compact.connectedClients = full.connectedClients

C16_Witness ==
    /\ ev.op = "apiData"
    /\ ret.body = FullSnapshot(cards, controls, sensor, now, clients)
    /\ Len(ret.body.cards) > 0 /\ Len(ret.body.controls) > 0
    /\ clients > 0
    /\ ret.body.cards[1].value # cards[1].value

\* the kinds by the prefix their registration gives the id, in the order the
\* claim lists them, and in the order of the enumerations of ESP32Dashboard.h
ClaimedCardOrder == <<"temp_", "hum_", "rpm_", "status_", "pct_", "custom_", "chart_">>
DeclaredCardOrder == <<"temp_", "hum_", "rpm_", "custom_", "status_", "pct_", "chart_">>
ControlOrder == <<"switch_", "btn_", "power_", "slider_">>

\* position, counted from 0, of the kind that registered the i-th widget with this id
PositionIn(order, id, i) ==
    (CHOOSE k \in 1..Len(order) : id = order[k] \o ToString(i - 1)) - 1

\* the type codes in every snapshot just emitted, broadcast or response body,
\* follow the given order of card kinds
TypeCodesFollow(cardOrder) ==
    /\ \A k \in 1..Len(sent) : \A i \in 1..Len(sent[k].cards) :
          sent[k].cards[i].type = PositionIn(cardOrder, sent[k].cards[i].id, i)
    /\ ev.op = "apiData" =>
          /\ \A i \in 1..Len(ret.body.cards) :
                ret.body.cards[i].type = PositionIn(cardOrder, ret.body.cards[i].id, i)
          /\ \A i \in 1..Len(ret.body.controls) :
                ret.body.controls[i].type = PositionIn(ControlOrder, ret.body.controls[i].id, i)

\* C20 as stated: the type code of a card is its kind's position in
\* {Temperature, Humidity, MotorRPM, Status, Percentage, Custom, Chart}, that of
\* a control its kind's position in {Switch, Button, PowerButton, Slider}.
C20_TypeCodesAsListed == TypeCodesFollow(ClaimedCardOrder)

\* C20 as amended: the type code of a card is its kind's position in
\* {Temperature, Humidity, MotorRPM, Custom, Status, Percentage, Chart}.
C20_TypeCodesAsDeclared == TypeCodesFollow(DeclaredCardOrder)

C20_Witness ==
    /\ ev.op = "apiData" /\ Len(cards) > 0 /\ Len(controls) > 0
    /\ cards[1].id = "status_0" /\ ret.body.cards[1].type = 4
    /\ controls[1].id = "slider_0" /\ ret.body.controls[1].type = 3

(***************************************************************************)
(* Properties of the card texts                                            *)
(***************************************************************************)
\* frame shows, for every card of cs, the producer's text for reading x where a
\* producer is bound and the stored text where none is
ShowsTexts(frame, cs, x) ==
    /\ Len(frame.cards) = Len(cs)
    /\ \A i \in 1..Len(cs) :
          /\ frame.cards[i].value = IF cs[i].valueCallback # "none"
                                    THEN ValueProducer(cs[i].valueCallback, x)
                                    ELSE cs[i].value
          /\ frame.cards[i].status = IF cs[i].statusCallback # "none"
                                     THEN StatusProducer(cs[i].statusCallback, x)
                                     ELSE cs[i].status

\* the snapshots of the last handler show the stored texts of the cards that
\* have no producer
StoredTextsShown ==
    \A k \in 1..Len(sent) : \A i \in 1..Len(cards) :
        /\ cards[i].valueCallback = "none" => sent[k].cards[i].value = cards[i].value
        /\ cards[i].statusCallback = "none" => sent[k].cards[i].status = cards[i].status

\* a step that emits snapshots emits them with the texts of that moment
EmitsCurrentTexts ==
    (sent' # sent \/ ret'.body # ret.body) =>
        /\ \A k \in 1..Len(sent') : ShowsTexts(sent'[k], cards', sensor)
        /\ ev'.op = "apiData" => ShowsTexts(ret'.body, cards', sensor)

\* a call of updateCard stores the value on the first card with that id, and
\* the status when it is not empty, and touches nothing else
UpdateCardStores ==
    (phase = "run" /\ pc' = pc /\ ev'.op = "updateCard") =>
        LET S == {i \in 1..Len(cards) : cards[i].id = ev'.arg.id}
        IN  /\ Len(cards') = Len(cards)
            /\ \A i \in 1..Len(cards) :
                  IF i \in S /\ \A j \in S : i <= j
                  THEN /\ cards'[i].value = ev'.arg.value
                       /\ cards'[i].status = IF ev'.arg.status # "" THEN ev'.arg.status
                                             ELSE cards[i].status
                       /\ cards'[i] = [cards[i] EXCEPT !.value = cards'[i].value,
                                                       !.status = cards'[i].status]
                  ELSE cards'[i] = cards[i]
            /\ controls' = controls

\* C21: every snapshot, full or compact, shows for each card the text of its
\* value producer when one is bound and the stored value otherwise, and the
\* same for the status; updateCard stores the value on the matching card and
\* overwrites the stored status only when the status passed is not empty.
C21_SnapshotShowsProducerOrStored ==
    []StoredTextsShown /\ [][EmitsCurrentTexts /\ UpdateCardStores]_vars

C21_Witness ==
    /\ ev.op = "apiData"
    /\ \E i \in 1..Len(cards) :
          /\ cards[i].valueCallback = "user" /\ cards[i].statusCallback = "none"
          /\ cards[i].value = "42" /\ cards[i].status = "ok"
          /\ ret.body.cards[i].value = ValueProducer("user", sensor)
          /\ ret.body.cards[i].status = "ok"

(***************************************************************************)
(* Properties of the device-side changes                                   *)
(***************************************************************************)
\* the widgets of the long-running sketch
LiveSwitch == "switch_0"
LiveSlider == "slider_1"
LiveCard == "status_0"

\* some snapshot of the last handler shows control id with this state / value,
\* card id with this value
CarriesState(id, b) ==
    \E k \in 1..Len(sent) : \E i \in 1..Len(sent[k].controls) :
        sent[k].controls[i].id = id /\ sent[k].controls[i].state = b

CarriesValue(id, v) ==
    \E k \in 1..Len(sent) : \E i \in 1..Len(sent[k].controls) :
        sent[k].controls[i].id = id /\ sent[k].controls[i].value = v

CarriesText(id, v) ==
    \E k \in 1..Len(sent) : \E i \in 1..Len(sent[k].cards) :
        sent[k].cards[i].id = id /\ sent[k].cards[i].value = v

\* the sketch's last call stored this state, value or text in a widget that exists
StoredState(id, b) ==
    ev.op = "setSwitchState" /\ ev.arg.id = id /\ ev.arg.b = b /\ FindSwitch(controls, id) # 0

StoredValue(id, v) ==
    ev.op = "setSliderValue" /\ ev.arg.id = id /\ ev.arg.n = v /\ FindSlider(controls, id) # 0

StoredText(id, v) ==
    /\ ev.op = "updateCard" /\ ev.arg.id = id /\ ev.arg.value = v
    /\ FindCard(cards, id) # 0 /\ cards[FindCard(cards, id)].valueCallback = "none"

\* the text stored in the card with this id ("" when there is none)
StoredCardText(cs, id) == IF FindCard(cs, id) = 0 THEN "" ELSE cs[FindCard(cs, id)].value

\* the broadcast of an update shows every control and every stored card text
\* as they are when the update runs
TickCarriesRegistry ==
    ev.op = "tick" =>
        /\ Len(sent) = 1
        /\ \A i \in 1..Len(controls) : sent[1].controls[i] = Shown(controls[i])
        /\ \A i \in 1..Len(cards) :
              cards[i].valueCallback = "none" => sent[1].cards[i].value = cards[i].value

\* C22: while loop() keeps being called and time passes, a state stored by
\* setSwitchState, a value stored by setSliderValue and a text stored by
\* updateCard in a card without producer is in the end carried by a broadcast,
\* unless something else is stored over it first; the broadcast of the next
\* update at the latest carries it, since that one shows the registry as it is.
C22_ChangeReachesViewers ==
    /\ []TickCarriesRegistry
    /\ \A b \in BOOLEAN :
          StoredState(LiveSwitch, b)
              ~> (CarriesState(LiveSwitch, b) \/ getSwitchState(controls, LiveSwitch) # b)
    /\ \A v \in SlideValues :
          StoredValue(LiveSlider, v)
              ~> (CarriesValue(LiveSlider, v) \/ getSliderValue(controls, LiveSlider) # v)
    /\ \A v \in CardTexts :
          StoredText(LiveCard, v)
              ~> (CarriesText(LiveCard, v) \/ StoredCardText(cards, LiveCard) # v)

C22_Witness ==
    /\ ev.op = "tick" /\ clients > 0
    /\ CarriesState(LiveSwitch, TRUE) /\ CarriesValue(LiveSlider, 150)
    /\ CarriesText(LiveCard, "42")
    /\ now = <<3 * (LongStep \div Half), 0>>

(***************************************************************************)
(* Properties of the order of execution                                    *)
(***************************************************************************)
HttpItems == {"apiControl", "apiData"}
WsItems == {"wsText", "wsConnected", "wsDisconnected"}

\* every snapshot the last handler broadcast shows the controls as that
\* handler left them
FramesShowWholeActions ==
    \A k \in 1..Len(sent) :
        /\ Len(sent[k].controls) = Len(controls)
        /\ \A i \in 1..Len(controls) : sent[k].controls[i] = Shown(controls[i])

\* loop() goes from the request/response channel to the push channel to the
\* tick check and back, every item is serviced at its place, and one step
\* holds the broadcasts of one handler
LoopOrder ==
    /\ pc' # pc => <<pc, pc'>> \in {<<"http", "ws">>, <<"ws", "tick">>, <<"tick", "http">>}
    /\ (ev' # ev /\ ev'.op \in HttpItems) => pc = "http" /\ pc' = "ws"
    /\ (ev' # ev /\ ev'.op \in WsItems) => pc = "ws" /\ pc' = "tick"
    /\ (ev' # ev /\ ev'.op = "tick") => pc = "tick" /\ pc' = "http"
    /\ Len(sent') <= 1

\* the update of an iteration broadcasts the controls as the handlers of that
\* iteration left them
TickSeesIteration ==
    (phase = "run" /\ pc = "tick" /\ pc' = "http"
        /\ Millis(now) - Millis(lastUpdate) >= Millis(updateInterval)) =>
        /\ ev'.op = "tick"
        /\ controls' = controls
        /\ Len(sent') = 1
        /\ \A i \in 1..Len(controls) : sent'[1].controls[i] = Shown(controls[i])

\* C23: an iteration of loop() services the request/response channel, then
\* the push channel, then checks the tick interval; handlers do not interleave,
\* so every broadcast shows the controls as left by completed actions, and
\* the update of an iteration shows what that iteration's actions did.
C23_RunToCompletion ==
    []FramesShowWholeActions /\ [][LoopOrder /\ TickSeesIteration]_vars

C23_Witness ==
    /\ ev.op = "tick" /\ pc = "http"
    /\ prev.toggle /\ prev.calls = <<SwitchCall("switch_0", ~prev.before)>>
    /\ Len(sent) = 1 /\ sent[1].controls[prev.target].state = ~prev.before

(***************************************************************************)
(* Properties of a dashboard without viewers                               *)
(***************************************************************************)
\* the viewers broadcastTXT hands a frame to: those connected when it was built
Recipients(frame) == frame.connectedClients

\* the registry is in order: ids as registered, one sample history per card,
\* every chart's store a tail of its history
RegistryConsistent ==
    /\ IdsWellFormed
    /\ Len(appended) = Len(cards)
    /\ \A i \in 1..Len(cards) :
          /\ Len(cards[i].chartData) <= Len(appended[i])
          /\ cards[i].chartData =
                 SubSeq(appended[i], Len(appended[i]) - Len(cards[i].chartData) + 1,
                        Len(appended[i]))

\* C24: while no viewer is connected, a command still does to its control what
\* it does otherwise and is answered 200, an update still takes its samples and
\* sets lastUpdate, each of them still calls the broadcast once, the broadcast
\* reaches nobody, and the registry stays in order.
C24_NoViewersNoOp ==
    clients = 0 =>
        /\ \A k \in 1..Len(sent) : Recipients(sent[k]) = 0
        /\ (ev.op = "apiControl" /\ ev.hasBody) =>
              /\ resp = 200 /\ Len(sent) = 1
              /\ (Matches(ev, pre) /\ Action(ev) = "toggle") =>
                    controls[Target(ev, pre)].state = ~pre[Target(ev, pre)].state
              /\ (Matches(ev, pre) /\ Action(ev) = "slide") =>
                    controls[Target(ev, pre)].value = AsInt(Doc(ev), "value")
              /\ Matches(ev, pre) => Len(ControlCalls(calls)) =
                                         IF Bound(pre[Target(ev, pre)]) THEN 1 ELSE 0
        /\ ev.op = "tick" =>
              /\ Len(sent) = 1
              /\ \A i \in 1..Len(cards) :
                    (cards[i].type = CARD_CHART /\ cards[i].valueCallback # "none") =>
                        /\ appended[i] # <<>>
                        /\ appended[i][Len(appended[i])].timestamp = sent[1].timestamp
              /\ UGe(lastUpdate, sent[1].timestamp)
        /\ RegistryConsistent

C24_Witness ==
    /\ clients = 0 /\ ev.op = "apiControl" /\ ev.hasBody
    /\ Matches(ev, pre) /\ Action(ev) = "toggle"
    /\ controls[Target(ev, pre)].state = ~pre[Target(ev, pre)].state
    /\ Len(sent) = 1 /\ Recipients(sent[1]) = 0
    /\ prev.toggle

(***************************************************************************)
(* Properties of the clock's wrap-around                                   *)
(***************************************************************************)
\* the step is the tick check of loop()
TickCheck == phase = "run" /\ pc = "tick" /\ pc' = "http"

\* the tick check ran the update: it assigned lastUpdate and broadcast
Updated == ev'.op = "tick" /\ Len(sent') = 1 /\ lastUpdate' = now' /\ since' = <<0, 0>>

\* C29: the tick check runs the update exactly when updateInterval
\* milliseconds or more have really passed since lastUpdate was assigned, also
\* when the clock has wrapped around in between: never before, so two updates
\* in a row are at least updateInterval apart; and the difference the code
\* computes, millis() - lastUpdate modulo 2^32, is the time that really passed.
C29_TickSurvivesWrap ==
    /\ [](phase = "run" => USub(now, lastUpdate) = since)
    /\ [][TickCheck =>
            IF UGe(since, updateInterval)
            THEN Updated
            ELSE UNCHANGED <<lastUpdate, since, ev, sent, cards, appended>>]_vars

C29_Witness ==
    /\ ev.op = "tick" /\ Len(sent) = 1
    /\ sent[1].timestamp = <<0, 0>> /\ now = <<0, 0>> /\ lastUpdate = <<0, 0>>
    /\ updateInterval = ToUnsigned(LongStep + 1)

(***************************************************************************)
(* Properties of begin()                                                   *)
(***************************************************************************)
\* what begin() has created and returned, by where it is
BeginOutcome ==
    /\ phase \in {"setup", "connecting", "checking"} =>
          /\ ~boot.server /\ ~boot.webSocket /\ boot.handlers = {}
          /\ boot.result = "none"
    /\ phase = "failed" =>
          /\ ~boot.server /\ ~boot.webSocket /\ boot.handlers = {}
          /\ boot.result = "false" /\ ~boot.up
    /\ phase = "run" =>
          /\ boot.server /\ boot.webSocket /\ boot.handlers = AllHandlers
          /\ boot.result = "true" /\ boot.up

\* begin(), once called, returns
BeginTerminates == (phase = "connecting") ~> (phase \in {"run", "failed"})

BeginStep ==
    /\ (phase = "connecting" /\ phase' = "connecting") =>
          /\ boot'.attempts = boot.attempts + 1 /\ boot'.polls = boot.polls + 1
          /\ ~boot'.up /\ boot.attempts < MaxAttempts
    /\ (phase = "connecting" /\ phase' = "checking") =>
          /\ boot'.attempts = boot.attempts /\ boot'.polls = boot.polls + 1
          /\ boot'.up \/ boot.attempts = MaxAttempts
    /\ (phase = "checking" /\ phase' # phase) => phase' \in {"run", "failed"}

Charts == {i \in 1..Len(cards) : cards[i].type = CARD_CHART}

Min(a, b) == IF a < b THEN a ELSE b

\* the last k elements of q
LastN(q, k) == SubSeq(q, Len(q) - k + 1, Len(q))

\* number of samples a store of capacity cap retains after n appends (a store
\* of negative capacity has room for none)
Retained(n, cap) == IF cap < 0 THEN 0 ELSE Min(n, cap)

\* C4: a chart card never stores more samples than its maxDataPoints allows,
\* whatever capacity the sketch configured, and what it stores is what was
\* appended minus samples evicted at the old end.
C4_ChartWithinCapacity ==
    \A i \in Charts :
        /\ Len(cards[i].chartData) <= Retained(Len(cards[i].chartData), cards[i].maxDataPoints)
        /\ Len(cards[i].chartData) <= Len(appended[i])
        /\ cards[i].chartData = LastN(appended[i], Len(cards[i].chartData))

\* C5: after N appends a chart card stores exactly the most recent
\* min(N, capacity) appended samples, oldest first.
C5_KeepsMostRecent ==
    \A i \in Charts :
        cards[i].chartData =
            LastN(appended[i], Retained(Len(appended[i]), cards[i].maxDataPoints))

\* what holds of the code: the same, for the capacities that are not negative
ChartKeepsMostRecentIfNonNegative ==
    \A i \in Charts :
        cards[i].maxDataPoints >= 0 =>
            /\ Len(cards[i].chartData) <= cards[i].maxDataPoints
            /\ cards[i].chartData =
                   LastN(appended[i], Min(Len(appended[i]), cards[i].maxDataPoints))

\* a chart card of positive capacity has evicted samples
ChartHasEvicted ==
    \E i \in Charts :
        /\ cards[i].maxDataPoints > 0
        /\ Len(appended[i]) > cards[i].maxDataPoints
        /\ Len(cards[i].chartData) = cards[i].maxDataPoints

\* the step is the update of loop(): the tick check, with the interval elapsed
UpdateRuns ==
    /\ phase = "run" /\ pc = "tick" /\ pc' = "http"
    /\ Millis(now) - Millis(lastUpdate) >= Millis(updateInterval)

\* the update gives every chart card exactly one more sample; every other step
\* of the running dashboard leaves the samples of every card alone
SamplesOnlyWithUpdate ==
    phase = "run" =>
        /\ Len(cards') = Len(cards) /\ Len(appended') = Len(appended)
        /\ \A i \in 1..Len(cards) :
              IF UpdateRuns /\ cards[i].type = CARD_CHART
              THEN /\ Len(appended'[i]) = Len(appended[i]) + 1
                   /\ SubSeq(appended'[i], 1, Len(appended[i])) = appended[i]
              ELSE /\ appended'[i] = appended[i]
                   /\ cards'[i].chartData = cards[i].chartData

\* a card is registered with no samples, and none are taken before begin()
NoSamplesBeforeRun ==
    phase = "setup" =>
        /\ Len(appended) = Len(cards)
        /\ \A i \in 1..Len(cards) : appended[i] = <<>> /\ cards[i].chartData = <<>>

\* C28: only the update appends chart samples, one per chart card each time:
\* broadcasts after a command or a connect, GET /api/data, disconnects and the
\* sketch's accessor calls leave every card's samples as they are, so a chart
\* card has been given as many samples as updates have run since it was
\* registered.
C28_SamplesOnlyFromUpdate == []NoSamplesBeforeRun /\ [][SamplesOnlyWithUpdate]_vars

C28_Witness ==
    /\ ev.op = "apiControl" /\ Len(sent) = 1
    /\ \E i \in Charts :
          /\ Len(appended[i]) = 1
          /\ sent[1].cards[i].chartData = appended[i]
          /\ cards[i].chartData = appended[i]

(***************************************************************************)
(* Properties of the periodic update                                       *)
(***************************************************************************)
Last(q) == q[Len(q)]

\* the step of loop() that follows webSocket->loop(): the update, or nothing
UpdateStep(chartShown(_)) ==
    (pc = "tick" /\ pc' = "http") =>
        IF Millis(now) - Millis(lastUpdate) >= Millis(updateInterval)
        THEN /\ ev'.op = "tick"
             /\ \A i \in Charts :
                   /\ Len(appended'[i]) = Len(appended[i]) + 1
                   /\ SubSeq(appended'[i], 1, Len(appended[i])) = appended[i]
                   /\ Last(appended'[i]).value = ChartValue(sensor)
             /\ \A i \in 1..Len(cards) \ Charts : cards'[i] = cards[i]
             /\ Len(sent') = 1
             /\ \A i \in Charts : chartShown(i)
             /\ lastUpdate' = now'
        ELSE UNCHANGED <<cards, appended, lastUpdate, ev, sent>>

\* C14 as stated: the update runs in an iteration exactly when updateInterval
\* milliseconds or more have passed since lastUpdate; it takes one sample per
\* chart card, broadcasts once with every chart's chartData ending in the new
\* sample, and sets lastUpdate.
C14_TickAppendsAndShows ==
    [][UpdateStep(LAMBDA i : /\ sent'[1].cards[i].chartData # <<>>
                             /\ Last(sent'[1].cards[i].chartData) = Last(appended'[i]))]_vars

\* C14 as amended: the same, except that a chart of capacity 0 loses the new
\* sample at once and is broadcast with empty chartData.
C14_TickAppendsAndShowsUnlessEmpty ==
    [][UpdateStep(LAMBDA i : IF cards[i].maxDataPoints = 0
                             THEN sent'[1].cards[i].chartData = <<>>
                             ELSE /\ sent'[1].cards[i].chartData # <<>>
                                  /\ Last(sent'[1].cards[i].chartData) = Last(appended'[i])
                                  /\ sent'[1].cards[i].chartData = cards'[i].chartData)]_vars

C14_Witness ==
    /\ ev.op = "tick" /\ Len(sent) = 1
    /\ lastUpdate = now /\ Millis(now) >= 2
    /\ \E i \in Charts :
          /\ cards[i].maxDataPoints = 1 /\ Len(appended[i]) = 2
          /\ sent[1].cards[i].chartData = <<Last(appended[i])>>

====
